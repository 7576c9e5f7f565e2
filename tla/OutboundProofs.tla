---------------------------- MODULE OutboundProofs ----------------------------
(***************************************************************************)
(* Proofs about the routers and the connect paths, for any ACL files, any  *)
(* addresses, any of them private or live, and any answers of DNS.         *)
(***************************************************************************)
EXTENDS Outbound, WellFoundedInduction, TLAPS

-----------------------------------------------------------------------------
(* First and last positions                                                 *)

\* A set of numbers that is not empty has a least one.
LEMMA LeastNumber ==
    ASSUME NEW T \in SUBSET Nat, T # {}
    PROVE  \E x \in T : \A y \in T : x <= y
<1> DEFINE R == {p \in Nat \X Nat : p[1] < p[2]}
<1>1. IsWellFoundedOn(R, Nat)
  BY NatLessThanWellFounded, Zenon DEF OpToRel
<1>2. PICK x \in T : \A y \in T : ~ (<<y, x>> \in R)
  <2> HIDE DEF R
  <2> QED
    BY <1>1, WFMin, Zenon
<1>3. ASSUME NEW y \in T PROVE x <= y
  <2>1. <<y, x>> \in Nat \X Nat /\ <<y, x>>[1] = y /\ <<y, x>>[2] = x
    BY Zenon
  <2> QED
    BY <1>2, <2>1
<1> QED
  BY <1>3, Zenon

\* Min is the first of some positions.
LEMMA FirstPosition ==
    ASSUME NEW n \in Nat, NEW S \in SUBSET (1..n), S # {}
    PROVE  Min(S) \in S
<1>1. S \in SUBSET Nat
  OBVIOUS
<1>2. \E x \in S : \A y \in S : x <= y
  BY <1>1, LeastNumber, Zenon
<1> QED
  BY <1>2, Zenon DEF Min

\* Max is the last of some positions.
LEMMA LastPosition ==
    ASSUME NEW n \in Nat, NEW S \in SUBSET (1..n), S # {}
    PROVE  Max(S) \in S
<1> DEFINE T == {k \in Nat : n - k \in S}
<1>1. T \in SUBSET Nat /\ T # {}
  <2>1. PICK i : i \in S
    BY Zenon
  <2>2. n - i \in Nat /\ n - (n - i) = i
    BY <2>1
  <2>3. n - i \in T
    BY <2>1, <2>2, Zenon
  <2> QED
    BY <2>3, Zenon
<1>2. PICK k \in T : \A j \in T : k <= j
  <2> HIDE DEF T
  <2> QED
    BY <1>1, LeastNumber, Zenon
<1>3. n - k \in S /\ k \in Nat
  BY <1>2, Zenon
<1>4. ASSUME NEW i \in S PROVE n - k >= i
  <2>1. n - i \in Nat /\ n - (n - i) = i /\ i \in Nat
    OBVIOUS
  <2>2. n - i \in T
    BY <2>1, Zenon
  <2>3. k <= n - i
    BY <1>2, <2>2, Zenon
  <2> QED
    BY <1>3, <2>1, <2>3
<1>5. \E x \in S : \A y \in S : x >= y
  BY <1>3, <1>4, Zenon
<1> QED
  BY <1>5, Zenon DEF Max

-----------------------------------------------------------------------------
(* The outbound of a target                                                 *)

Kinds == {"Direct", "Socks5", "Http", "Reject"}

\* The handler of a direct outbound with the options that the file asks for.
AskedHandler == [kind |-> "Direct", custom_dial |-> custom_dial(Asked), opts |-> Options(Asked)]

\* An entry of type direct becomes the outbound of its direct section.
LEMMA EntryDirect ==
    ASSUME NEW e, e.type = "direct" PROVE from_entry(e) = from_direct(e.direct)
  BY Zenon DEF from_entry

\* An entry that is no error is an outbound of one of the kinds; a direct one has the
\* options of its section.
LEMMA EntryKinds ==
    ASSUME NEW e \in OutboundEntries, from_entry(e) # Err
    PROVE  /\ from_entry(e).kind \in Kinds
           /\ from_entry(e).kind = "Direct" =>
                LET d == IF e.direct = Absent THEN DirectConfig ELSE e.direct
                IN /\ d.mode \in DOMAIN Modes
                   /\ from_entry(e) = [kind |-> "Direct", custom_dial |-> custom_dial(d),
                                       opts |-> Options(d)]
<1>1. CASE e.type = "direct"
  <2>1. from_entry(e) = from_direct(e.direct)
    BY <1>1, EntryDirect, Zenon
  <2> QED
    BY <2>1 DEF from_direct, Err, Kinds
<1>2. CASE e.type = "socks5"
  <2> DEFINE auth == e.socks5.username /\ e.socks5.password
  <2>1. from_entry(e) = IF e.socks5 = Absent THEN Err
                        ELSE IF auth /\ e.socks5.addr = "bad" THEN Err
                        ELSE [kind |-> "Socks5", auth |-> auth, allow_udp |-> e.socks5.allow_udp]
    BY <1>2, Zenon DEF from_entry
  <2> HIDE DEF auth
  <2> QED
    BY <2>1 DEF Kinds
<1>3. CASE e.type = "http"
  <2> DEFINE auth == e.http.username /\ e.http.password
  <2>1. from_entry(e) = IF e.http = Absent \/ (e.http.https /\ e.http.addr = "bad") THEN Err
                        ELSE [kind |-> "Http", auth |-> auth]
    BY <1>3, Zenon DEF from_entry
  <2> HIDE DEF auth
  <2> QED
    BY <2>1 DEF Kinds
<1>4. CASE e.type = "reject"
  <2>1. from_entry(e) = [kind |-> "Reject"]
    BY <1>4, Zenon DEF from_entry
  <2> QED
    BY <2>1 DEF Kinds
<1>5. CASE e.type \notin {"direct", "socks5", "http", "reject"}
  <2>1. from_entry(e) = Err
    BY <1>5, Zenon DEF from_entry
  <2> QED
    BY <2>1, Zenon
<1> QED
  BY <1>1, <1>2, <1>3, <1>4, <1>5, Zenon

\* The handler of a file without outbounds is a direct one with the default options.
LEMMA DefaultHandler ==
    /\ DirectConfig.mode \in DOMAIN Modes
    /\ PlainDirect = [kind |-> "Direct", custom_dial |-> custom_dial(DirectConfig),
                      opts |-> Options(DirectConfig)]
<1>1. DirectConfig.mode \in DOMAIN Modes
  BY Zenon DEF DirectConfig, Modes
<1>2. custom_dial(DirectConfig) = FALSE
  BY DEF DirectConfig, custom_dial, default_tcp_keepalive_secs
<1> QED
  BY <1>1, <1>2, Zenon DEF PlainDirect

\* The rule that the engine adds to an empty list names direct, as no rule does.
LEMMA SameTarget ==
    ASSUME NEW rules \in Seq(Rules)
    PROVE  Target(IF rules = <<>> THEN <<[to |-> "direct", hits |-> TRUE]>> ELSE rules) = Target(rules)
<1>1. CASE rules # <<>>
  BY <1>1, Zenon
<1>2. CASE rules = <<>>
  <2> DEFINE one == <<[to |-> "direct", hits |-> TRUE]>>
  <2>1. Target(rules) = "direct"
    BY <1>2 DEF Target
  <2>2. {i \in DOMAIN one : one[i].hits} = {1} /\ one[1].to = "direct"
    OBVIOUS
  <2>3. Min({1}) = 1
    <3>1. {1} \in SUBSET (1..1) /\ {1} # {} /\ 1 \in Nat
      OBVIOUS
    <3>2. Min({1}) \in {1}
      BY <3>1, FirstPosition, Zenon
    <3> QED
      BY <3>2, Zenon
  <2> HIDE DEF one
  <2>4. Target(one) = "direct"
    BY <2>2, <2>3, Zenon DEF Target
  <2> QED
    BY <1>2, <2>1, <2>4, Zenon DEF one
<1> QED
  BY <1>1, <1>2, Zenon

\* A matching rule names an outbound that exists, and so does the fallback.
LEMMA TargetExists ==
    ASSUME NEW rules \in Seq(Rules), NEW outbounds, "direct" \in DOMAIN outbounds,
           Compiles(rules, outbounds)
    PROVE  Target(rules) \in DOMAIN outbounds
<1> DEFINE hits == {i \in DOMAIN rules : rules[i].hits}
<1>1. CASE hits = {}
  BY <1>1, Zenon DEF Target
<1>2. CASE hits # {}
  <2>1. Len(rules) \in Nat /\ DOMAIN rules = 1..Len(rules)
    OBVIOUS
  <2>2. hits \in SUBSET (1..Len(rules))
    BY <2>1, Zenon
  <2>3. Min(hits) \in hits
    <3> HIDE DEF hits
    <3> QED
      BY <1>2, <2>1, <2>2, FirstPosition, Zenon
  <2> QED
    BY <1>2, <2>3, Zenon DEF Target, Compiles
<1> QED
  BY <1>1, <1>2, Zenon

\* What AclEngine::new has built gives every target an outbound of some kind; a direct
\* one dials with the options that the file asks for.
LEMMA MatchedHandler ==
    ASSUME file \in Files, engine = AclEngine(file), engine # Err
    PROVE  /\ match_host(engine).kind \in Kinds
           /\ match_host(engine).kind = "Direct" =>
                /\ match_host(engine) = AskedHandler
                /\ Asked \in DirectConfigs \cup {DirectConfig} /\ Asked.mode \in DOMAIN Modes
<1> DEFINE entries == file.outbounds
           rules == IF file.rules = <<>> THEN <<[to |-> "direct", hits |-> TRUE]>> ELSE file.rules
           first == or_insert(Inserted(entries), "reject", [kind |-> "Reject"])
           outbounds == or_insert(first, "direct", PlainDirect)
           target == Target(file.rules)
           names == {entries[i].name : i \in DOMAIN entries}
           named == Named(entries, target)
<1>1. entries \in Seq(OutboundEntries) /\ file.rules \in Seq(Rules)
  BY OutboundAssumption, Zenon DEF AclFiles
<1>2. /\ \A i \in DOMAIN entries : from_entry(entries[i]) # Err
      /\ Compiles(rules, outbounds)
      /\ engine = [kind |-> "Engine", outbounds |-> outbounds, rules |-> rules]
  BY Zenon DEF AclEngine
<1>3. engine.outbounds = outbounds /\ engine.rules = rules
  <2> HIDE DEF rules, outbounds
  <2> QED
    BY <1>2
<1>4. Target(rules) = target
  BY <1>1, SameTarget, Zenon
<1>5. match_host(engine) = outbounds[target]
  BY <1>3, <1>4, Zenon DEF match_host
<1>6. target \in DOMAIN outbounds
  <2>1. "direct" \in DOMAIN outbounds
    BY Zenon DEF or_insert
  <2>2. CASE file.rules = <<>>
    BY <2>1, <2>2 DEF Target
  <2>3. CASE file.rules # <<>>
    <3>1. rules = file.rules
      BY <2>3, Zenon
    <3> HIDE DEF rules, outbounds
    <3> QED
      BY <1>1, <1>2, <2>1, <3>1, TargetExists, Zenon
  <2> QED
    BY <2>2, <2>3, Zenon
<1>7. /\ DOMAIN outbounds = names \cup {"reject", "direct"}
      /\ target \in names => outbounds[target] = from_entry(entries[Max(named)])
      /\ target \notin names /\ target = "reject" => outbounds[target] = [kind |-> "Reject"]
      /\ target \notin names /\ target # "reject" => outbounds[target] = PlainDirect
  <2> HIDE DEF target, entries
  <2> QED
    BY <1>6, Zenon DEF or_insert, Inserted
<1>8. CASE target \in names
  <2>1. named # {} /\ named \in SUBSET (1..Len(entries)) /\ Len(entries) \in Nat
    BY <1>1, <1>8 DEF Named
  <2>2. Max(named) \in named
    <3> HIDE DEF named, entries
    <3> QED
      BY <2>1, LastPosition, Zenon
  <2> DEFINE e == entries[Max(named)]
  <2>3. e \in OutboundEntries /\ from_entry(e) # Err /\ match_host(engine) = from_entry(e)
    <3>1. Max(named) \in DOMAIN entries
      BY <2>2, Zenon DEF Named
    <3>2. match_host(engine) = from_entry(e)
      BY <1>5, <1>7, <1>8, Zenon
    <3> HIDE DEF entries, named
    <3> QED
      BY <1>1, <1>2, <3>1, <3>2
  <2>4. Asked = IF e.direct = Absent THEN DirectConfig ELSE e.direct
    <3>1. Named(file.outbounds, Target(file.rules)) # {}
      BY <2>1, Zenon
    <3> QED
      BY <3>1, Zenon DEF Asked
  <2>5. Asked \in DirectConfigs \cup {DirectConfig}
    <3> HIDE DEF e
    <3>1. e.direct \in DirectConfigs \cup {Absent}
      BY <2>3, Zenon DEF OutboundEntries
    <3> QED
      BY <2>4, <3>1, Zenon
  <2> HIDE DEF e
  <2> QED
    BY <2>3, <2>4, <2>5, EntryKinds, Zenon DEF AskedHandler
<1>9. CASE target \notin names
  <2>1. named = {}
    BY <1>9, Zenon DEF Named
  <2>2. Asked = DirectConfig
    BY <2>1, Zenon DEF Asked
  <2>3. CASE target = "reject"
    <3>1. match_host(engine).kind = "Reject"
      BY <1>5, <1>7, <1>9, <2>3
    <3> QED
      BY <3>1, Zenon DEF Kinds
  <2>4. CASE target # "reject"
    <3>1. match_host(engine) = PlainDirect
      BY <1>5, <1>7, <1>9, <2>4, Zenon
    <3>2. PlainDirect.kind \in Kinds
      BY Zenon DEF PlainDirect, Kinds
    <3> QED
      BY <2>2, <3>1, <3>2, DefaultHandler, Zenon DEF AskedHandler
  <2> QED
    BY <2>3, <2>4, Zenon
<1> QED
  BY <1>8, <1>9, Zenon

\* None of the addresses of s is private.
Public(s) == \A i \in DOMAIN s : s[i] \notin Private

\* None of the addresses of s answers.
Dead(s) == \A i \in DOMAIN s : s[i] \notin live

\* The outbound of the target.
Matched == IF file = Absent THEN PlainDirect ELSE match_host(engine)

\* What cannot change, and what a routed request remembers.
TypeInv ==
    /\ file \in Files \cup {Absent} /\ engine = build_router(file) /\ engine # Err
    /\ addr \in IPs \cup Domains
    /\ dns \in Seq(IPs) /\ resolved \in Seq(IPs) /\ ips \in Seq(IPs) /\ tried \in Seq(IPs)
    /\ stage = "route" => resolved = <<>> /\ ips = <<>> /\ tried = <<>> /\ applied = Absent
    /\ stage # "route" => handler = Matched

\* Which handler each connect path has.
PathInv ==
    /\ stage \in {"lookup", "list"} => handler.kind = "Direct" /\ ~handler.custom_dial
    /\ stage = "dialer" => handler.kind = "Direct" /\ handler.custom_dial
    /\ stage \in {"lookup", "proxy"} => resolved = <<>>
    /\ stage = "lookup" => tried = <<>>
    /\ stage = "list" => ips # <<>>

\* What was checked is all that a connect path may use.
CheckInv ==
    block_private_ip =>
        /\ Public(resolved) /\ Public(ips) /\ Public(tried)
        /\ (stage \in {"lookup", "dialer"} /\ resolved = <<>>) => addr \in IPs \ Private

\* The list of the router is tried from its front.
ListInv ==
    /\ (stage = "list" /\ resolved # <<>>) => tried \o ips = resolved /\ Dead(tried)
    /\ LiveAddressReached

\* Where the options of a connection come from.
AppliedInv ==
    applied # Absent =>
        /\ stage # "route" /\ handler.kind = "Direct"
        /\ IF handler.custom_dial THEN applied = DialerOptions ELSE applied = BareOptions

OutInv == TypeInv /\ PathInv /\ CheckInv /\ ListInv /\ AppliedInv

-----------------------------------------------------------------------------
(* Routing                                                                  *)

\* The decision of the router that is in force.
Decision == IF file = Absent THEN DirectRoute(addr, dns) ELSE AclRoute(addr, dns)

\* A direct decision is for a direct outbound; with block_private_ip it passes on
\* addresses that were checked, or none for a target that is a checked address.
Sound(decision) ==
    \/ decision = Reject
    \/ decision = Proxy
    \/ \E rs \in Seq(IPs) :
           /\ decision = Direct(rs, Matched.custom_dial)
           /\ Matched.kind = "Direct"
           /\ block_private_ip => Public(rs) /\ (rs = <<>> => addr \in IPs \ Private)

\* The handler of a routed request.
LEMMA MatchedType ==
    ASSUME TypeInv
    PROVE  /\ Matched.kind \in Kinds
           /\ Matched.kind = "Direct" => Matched.custom_dial \in BOOLEAN
<1>1. CASE file = Absent
  BY <1>1, Zenon DEF Matched, PlainDirect, Kinds
<1>2. CASE file # Absent
  <2>1. Matched = match_host(engine) /\ file \in Files /\ engine = AclEngine(file) /\ engine # Err
    BY <1>2, Zenon DEF TypeInv, Matched, build_router
  <2>2. Matched.kind \in Kinds /\ (Matched.kind = "Direct" => Matched = AskedHandler)
    BY <2>1, MatchedHandler, Zenon
  <2>3. custom_dial(Asked) \in BOOLEAN
    BY Zenon DEF custom_dial
  <2> QED
    BY <2>2, <2>3 DEF AskedHandler
<1> QED
  BY <1>1, <1>2, Zenon

\* An answer that passed the check holds public addresses only.
LEMMA CheckedAnswer ==
    ASSUME TypeInv, ~check_private_and_resolve(addr, dns).private
    PROVE  /\ check_private_and_resolve(addr, dns).ips \in Seq(IPs)
           /\ Public(check_private_and_resolve(addr, dns).ips)
           /\ addr \notin Domains => addr \in IPs \ Private
<1>1. Public(<<>>) /\ <<>> \in Seq(IPs)
  BY DEF Public
<1>2. addr \in IPs \cup Domains /\ dns \in Seq(IPs)
  BY Zenon DEF TypeInv
<1> QED
  BY <1>1, <1>2, Zenon DEF check_private_and_resolve, Public

\* The ACL router, given what the check has passed on.
LEMMA AclDecides ==
    ASSUME TypeInv, file # Absent, NEW rs \in Seq(IPs),
           block_private_ip => Public(rs) /\ (addr \notin Domains => addr \in IPs \ Private)
    PROVE  Sound(route_addr_with_resolved(addr, rs))
<1> DEFINE d == route_addr_with_resolved(addr, rs)
<1>1. Matched = match_host(engine) /\ Matched.kind \in Kinds
  BY MatchedType, Zenon DEF Matched
<1>2. CASE Matched.kind = "Direct"
  <2>1. d = direct_decision(addr, rs, Matched.custom_dial)
    BY <1>1, <1>2, Zenon DEF route_addr_with_resolved
  <2>2. CASE block_private_ip /\ rs = <<>> /\ addr \in Domains
    BY <2>1, <2>2, Zenon DEF direct_decision, Sound
  <2>3. CASE ~(block_private_ip /\ rs = <<>> /\ addr \in Domains)
    <3>1. d = Direct(rs, Matched.custom_dial)
      BY <2>1, <2>3, Zenon DEF direct_decision
    <3>2. block_private_ip => Public(rs) /\ (rs = <<>> => addr \in IPs \ Private)
      BY <2>3, Zenon
    <3> QED
      BY <1>2, <3>1, <3>2, Zenon DEF Sound
  <2> QED
    BY <2>2, <2>3, Zenon
<1>3. CASE Matched.kind \in {"Socks5", "Http"}
  <2>1. d = Proxy
    BY <1>1, <1>3, Zenon DEF route_addr_with_resolved
  <2> QED
    BY <2>1, Zenon DEF Sound
<1>4. CASE Matched.kind = "Reject"
  <2>1. d = Reject
    BY <1>1, <1>4, Zenon DEF route_addr_with_resolved
  <2> QED
    BY <2>1, Zenon DEF Sound
<1> QED
  BY <1>1, <1>2, <1>3, <1>4, Zenon DEF Kinds

\* Whatever the router decides is sound.
LEMMA DecisionSound == ASSUME TypeInv PROVE Sound(Decision)
<1> DEFINE check == check_private_and_resolve(addr, dns)
<1>1. <<>> \in Seq(IPs)
  OBVIOUS
<1>2. CASE file # Absent
  <2>1. CASE ~block_private_ip
    <3>1. Decision = route_addr_with_resolved(addr, <<>>)
      BY <1>2, <2>1, Zenon DEF Decision, AclRoute
    <3>2. block_private_ip => Public(<<>>) /\ (addr \notin Domains => addr \in IPs \ Private)
      BY <2>1, Zenon
    <3>3. Sound(route_addr_with_resolved(addr, <<>>))
      BY <1>1, <1>2, <3>2, AclDecides, Zenon
    <3> QED
      BY <3>1, <3>3, Zenon
  <2>2. CASE block_private_ip /\ check.private
    BY <1>2, <2>2, Zenon DEF Decision, AclRoute, Sound
  <2>3. CASE block_private_ip /\ ~check.private
    <3>1. Decision = route_addr_with_resolved(addr, check.ips)
      BY <1>2, <2>3, Zenon DEF Decision, AclRoute
    <3>2. check.ips \in Seq(IPs) /\ Public(check.ips) /\ (addr \notin Domains => addr \in IPs \ Private)
      BY <2>3, CheckedAnswer, Zenon
    <3> HIDE DEF check
    <3>3. Sound(route_addr_with_resolved(addr, check.ips))
      BY <1>2, <3>2, AclDecides, Zenon
    <3> QED
      BY <3>1, <3>3, Zenon
  <2> QED
    BY <2>1, <2>2, <2>3, Zenon
<1>3. CASE file = Absent
  <2>1. Matched.kind = "Direct" /\ Matched.custom_dial = FALSE
    BY <1>3, Zenon DEF Matched, PlainDirect
  <2>2. CASE ~block_private_ip
    <3>1. Decision = Direct(<<>>, FALSE)
      BY <1>3, <2>2, Zenon DEF Decision, DirectRoute
    <3> QED
      BY <1>1, <2>1, <2>2, <3>1, Zenon DEF Sound
  <2>3. CASE block_private_ip /\ (check.private \/ (check.ips = <<>> /\ addr \in Domains))
    BY <1>3, <2>3, Zenon DEF Decision, DirectRoute, Sound
  <2>4. CASE block_private_ip /\ ~(check.private \/ (check.ips = <<>> /\ addr \in Domains))
    <3>1. Decision = Direct(check.ips, FALSE)
      BY <1>3, <2>4, Zenon DEF Decision, DirectRoute
    <3>2. check.ips \in Seq(IPs) /\ Public(check.ips) /\ (addr \notin Domains => addr \in IPs \ Private)
      BY <2>4, CheckedAnswer, Zenon
    <3>3. check.ips = <<>> => addr \in IPs \ Private
      BY <2>4, <3>2, Zenon
    <3> HIDE DEF check
    <3> QED
      BY <2>1, <3>1, <3>2, <3>3, Zenon DEF Sound
  <2> QED
    BY <2>2, <2>3, <2>4, Zenon
<1> QED
  BY <1>2, <1>3, Zenon

\* Where a decision leads.
LEMMA DispatchDirect ==
    ASSUME NEW rs, NEW custom \in BOOLEAN
    PROVE  Dispatch(Direct(rs, custom)) =
               IF addr = Magic THEN "uot" ELSE IF custom THEN "dialer"
               ELSE IF rs # <<>> THEN "list" ELSE "lookup"
<1> DEFINE d == Direct(rs, custom)
<1>1. d.type = "Direct" /\ d.custom = custom /\ d.resolved = rs
  BY Zenon DEF Direct
<1> HIDE DEF d
<1>2. addr = Magic => Dispatch(d) = "uot"
  BY <1>1, Zenon DEF Dispatch
<1>3. addr # Magic => Dispatch(d) = IF d.custom THEN "dialer"
                                    ELSE IF d.resolved # <<>> THEN "list" ELSE "lookup"
  BY <1>1, Zenon DEF Dispatch
<1> QED
  BY <1>1, <1>2, <1>3, Zenon DEF d

\* Where a rejected and a proxied destination go.
LEMMA DispatchOther ==
    /\ Dispatch(Reject) = "reject"
    /\ Dispatch(Proxy) = IF addr = Magic THEN "uot" ELSE "proxy"
<1>1. Reject.type = "Reject" /\ Proxy.type = "Proxy"
  BY Zenon DEF Reject, Proxy
<1>2. Dispatch(Reject) = "reject"
  BY <1>1, Zenon DEF Dispatch
<1>3. addr = Magic => Dispatch(Proxy) = "uot"
  BY <1>1, Zenon DEF Dispatch
<1>4. addr # Magic => Dispatch(Proxy) = "proxy"
  BY <1>1, Zenon DEF Dispatch
<1> QED
  BY <1>2, <1>3, <1>4, Zenon

-----------------------------------------------------------------------------
(* The inductive invariant                                                  *)

\* DNS answers are sequences of addresses.
LEMMA AnswersType == Answers \subseteq Seq(IPs)
  BY OutboundAssumption DEF Answers

\* The invariant holds of a new request.
LEMMA OutInit == Init => OutInv
<1> SUFFICES ASSUME Init PROVE OutInv
  BY Zenon
<1>1. <<>> \in Seq(IPs) /\ DOMAIN <<>> = {}
  OBVIOUS
<1>2. TypeInv
  BY <1>1, AnswersType, Zenon DEF Init, TypeInv
<1> QED
  BY <1>1, <1>2, Zenon
      DEF Init, OutInv, PathInv, CheckInv, ListInv, AppliedInv, LiveAddressReached, Public

\* The request is routed.
LEMMA RouteKeeps == ASSUME OutInv, Route PROVE OutInv'
<1>1. /\ stage = "route" /\ stage' = Dispatch(Decision) /\ handler' = Matched
      /\ resolved' = Decision.resolved
      /\ ips' = IF stage' = "list" THEN Decision.resolved ELSE <<>>
      /\ UNCHANGED <<config, dns, tried, applied>>
  BY Zenon DEF Route, Decision, Matched
<1>2. TypeInv /\ tried = <<>> /\ applied = Absent
  BY <1>1, Zenon DEF OutInv, TypeInv
<1>3. /\ Matched' = Matched
      /\ Matched.kind \in Kinds /\ (Matched.kind = "Direct" => Matched.custom_dial \in BOOLEAN)
  BY <1>1, <1>2, MatchedType, Zenon DEF Matched, config
<1>4. <<>> \in Seq(IPs) /\ Public(<<>>)
  BY DEF Public
<1>5. UNCHANGED <<file, engine, block_private_ip, addr, live, dns>>
  BY <1>1, Zenon DEF config
<1>6. ASSUME Decision \in {Reject, Proxy} PROVE OutInv'
  <2>1. resolved' = <<>> /\ stage' \in {"reject", "uot", "proxy"} /\ ips' = <<>>
    <3>1. Reject.resolved = <<>> /\ Proxy.resolved = <<>>
      BY Zenon DEF Reject, Proxy
    <3>2. stage' \in {"reject", "uot", "proxy"}
      <4>1. CASE Decision = Reject
        BY <1>1, <4>1, DispatchOther
      <4>2. CASE Decision = Proxy
        BY <1>1, <4>2, DispatchOther
      <4> QED
        BY <1>6, <4>1, <4>2, Zenon
    <3> QED
      BY <1>1, <1>6, <3>1, <3>2
  <2>2. TypeInv'
    BY <1>1, <1>2, <1>3, <1>4, <1>5, <2>1 DEF TypeInv
  <2>3. PathInv' /\ CheckInv' /\ ListInv' /\ AppliedInv'
    BY <1>1, <1>2, <1>4, <2>1
       DEF PathInv, CheckInv, ListInv, AppliedInv, LiveAddressReached, Public
  <2> QED
    BY <2>2, <2>3, Zenon DEF OutInv
<1>7. ASSUME NEW rs \in Seq(IPs), Decision = Direct(rs, Matched.custom_dial), Matched.kind = "Direct",
             block_private_ip => Public(rs) /\ (rs = <<>> => addr \in IPs \ Private)
      PROVE  OutInv'
  <2>1. resolved' = rs
    BY <1>1, <1>7, Zenon DEF Direct
  <2>2. stage' = IF addr = Magic THEN "uot" ELSE IF Matched.custom_dial THEN "dialer"
                 ELSE IF rs # <<>> THEN "list" ELSE "lookup"
    BY <1>1, <1>3, <1>7, DispatchDirect, Zenon
  <2>3. ips' = IF stage' = "list" THEN rs ELSE <<>>
    BY <1>1, <2>1, Zenon
  <2>4. TypeInv'
    BY <1>1, <1>2, <1>3, <1>4, <1>5, <1>7, <2>1, <2>2, <2>3 DEF TypeInv
  <2>5. PathInv'
    BY <1>1, <1>2, <1>3, <1>7, <2>1, <2>2, <2>3 DEF PathInv
  <2>6. CheckInv'
    <3>1. block_private_ip => Public(rs) /\ Public(ips') /\ Public(tried')
      BY <1>1, <1>2, <1>4, <1>7, <2>3
    <3>2. Public(resolved)' <=> Public(rs)
      BY <2>1, <1>5, Zenon DEF Public
    <3>3. (Public(ips)' <=> Public(ips')) /\ (Public(tried)' <=> Public(tried'))
      BY Zenon DEF Public
    <3> QED
      BY <1>5, <1>7, <2>1, <3>1, <3>2, <3>3 DEF CheckInv
  <2>7. ListInv'
    <3>1. <<>> \o rs = rs
      BY <1>7
    <3>2. Dead(tried)'
      BY <1>1, <1>2 DEF Dead
    <3>3. stage' = "list" => tried' \o ips' = resolved'
      BY <1>1, <1>2, <2>1, <2>3, <3>1
    <3> QED
      BY <2>2, <3>2, <3>3 DEF ListInv, LiveAddressReached
  <2>8. AppliedInv'
    BY <1>1, <1>2, Zenon DEF AppliedInv
  <2> QED
    BY <2>4, <2>5, <2>6, <2>7, <2>8 DEF OutInv
<1>8. Sound(Decision)
  BY <1>2, DecisionSound, Zenon
<1> QED
  BY <1>6, <1>7, <1>8, Zenon DEF Sound

\* The target is looked up.
LEMMA LookupKeeps == ASSUME OutInv, LookupAddr PROVE OutInv'
<1>1. /\ stage = "lookup" /\ tried = <<>> /\ resolved = <<>>
      /\ handler.kind = "Direct" /\ ~handler.custom_dial /\ applied' = applied
      /\ UNCHANGED <<config, dns, handler, resolved, tried>>
  BY Zenon DEF LookupAddr, OutInv, PathInv
<1>2. UNCHANGED <<file, engine, block_private_ip, tcp_nodelay, addr, live, dns, Matched>>
  BY <1>1, Zenon DEF config, Matched
<1>3. stage' = IF ips' = <<>> THEN "failed" ELSE "list"
  BY Zenon DEF LookupAddr
<1>4. ips' \in Seq(IPs)
  <2>1. dns \in Seq(IPs)
    BY Zenon DEF OutInv, TypeInv
  <2>2. CASE addr \in IPs
    BY <2>2 DEF LookupAddr
  <2>3. CASE addr \notin IPs /\ dns = <<>>
    BY <2>3 DEF LookupAddr
  <2>4. CASE addr \notin IPs /\ dns # <<>>
    BY <2>1, <2>4 DEF LookupAddr
  <2> QED
    BY <2>2, <2>3, <2>4, Zenon
<1>5. block_private_ip => Public(ips)'
  <2>1. block_private_ip => addr \in IPs \ Private
    BY <1>1, Zenon DEF OutInv, CheckInv
  <2>2. block_private_ip => ips' = <<addr>>
    BY <2>1, Zenon DEF LookupAddr
  <2> QED
    BY <1>2, <2>1, <2>2 DEF Public
<1>6. TypeInv'
  BY <1>1, <1>2, <1>3, <1>4, Zenon DEF OutInv, TypeInv
<1>7. PathInv'
  BY <1>1, <1>3, Zenon DEF PathInv
<1>8. CheckInv'
  BY <1>1, <1>2, <1>3, <1>5, Zenon DEF OutInv, CheckInv, Public
<1>9. ListInv'
  BY <1>1, <1>3, Zenon DEF ListInv, LiveAddressReached
<1>10. AppliedInv'
  BY <1>1, <1>2, <1>3, Zenon DEF OutInv, AppliedInv, BareOptions
<1> QED
  BY <1>6, <1>7, <1>8, <1>9, <1>10 DEF OutInv

\* Moving the first element of t to the end of s does not change s \o t.
LEMMA ListShift ==
    ASSUME NEW s \in Seq(IPs), NEW t \in Seq(IPs), t # <<>>
    PROVE  Append(s, Head(t)) \o Tail(t) = s \o t
  BY SMTT(20)

\* The next address of the list is tried.
LEMMA TryKeeps == ASSUME OutInv, TryNext PROVE OutInv'
<1>1. /\ stage = "list" /\ ips # <<>> /\ handler.kind = "Direct" /\ ~handler.custom_dial
      /\ tried' = Append(tried, Head(ips)) /\ ips' = Tail(ips)
      /\ stage' = IF Head(ips) \in live THEN "connected" ELSE IF ips' = <<>> THEN "failed" ELSE "list"
      /\ applied' = IF stage' = "connected" THEN BareOptions ELSE applied
      /\ UNCHANGED <<config, dns, handler, resolved>>
  BY Zenon DEF TryNext, OutInv, PathInv
<1>2. UNCHANGED <<file, engine, block_private_ip, tcp_nodelay, addr, live, dns, Matched>>
  BY <1>1, Zenon DEF config, Matched
<1>3. tried \in Seq(IPs) /\ ips \in Seq(IPs) /\ resolved \in Seq(IPs)
  BY Zenon DEF OutInv, TypeInv
<1>4. /\ Head(ips) \in IPs /\ Head(ips) = ips[1] /\ 1 \in DOMAIN ips
      /\ ips' \in Seq(IPs) /\ tried' \in Seq(IPs)
  BY <1>1, <1>3
<1>5. /\ Len(ips) \in Nat \ {0} /\ Len(ips') = Len(ips) - 1
      /\ \A i \in DOMAIN ips' : i + 1 \in DOMAIN ips /\ ips'[i] = ips[i + 1]
  BY <1>1, <1>3
<1>6. \A i \in DOMAIN tried' :
          (i \in DOMAIN tried /\ tried'[i] = tried[i]) \/ tried'[i] = Head(ips)
  BY <1>1, <1>3, <1>4
<1>7. TypeInv'
  BY <1>1, <1>2, <1>3, <1>4 DEF OutInv, TypeInv
<1>8. PathInv'
  BY <1>1, Zenon DEF PathInv
<1>9. CheckInv'
  <2>1. ASSUME block_private_ip PROVE Public(resolved)' /\ Public(ips)' /\ Public(tried)'
    <3>1. Public(resolved) /\ Public(ips) /\ Public(tried)
      BY <2>1, Zenon DEF OutInv, CheckInv
    <3>2. Public(resolved)'
      BY <1>1, <3>1, Zenon DEF Public
    <3>3. Public(ips)'
      BY <1>5, <3>1, Zenon DEF Public
    <3>4. Public(tried)'
      BY <1>4, <1>6, <3>1, Zenon DEF Public
    <3> QED
      BY <3>2, <3>3, <3>4, Zenon
  <2>2. stage' \notin {"lookup", "dialer"}
    BY <1>1, Zenon
  <2> QED
    BY <1>2, <2>1, <2>2, Zenon DEF CheckInv
<1>10. ListInv'
  <2>1. ASSUME resolved # <<>>, Head(ips) \notin live
        PROVE  tried' \o ips' = resolved' /\ Dead(tried)'
    <3>1. tried \o ips = resolved /\ Dead(tried)
      BY <1>1, <2>1, Zenon DEF OutInv, ListInv
    <3>2. Dead(tried)'
      BY <1>2, <1>6, <2>1, <3>1, Zenon DEF Dead
    <3>3. tried' \o ips' = tried \o ips
      BY <1>1, <1>3, ListShift, Zenon
    <3> QED
      BY <1>1, <3>1, <3>2, <3>3, Zenon
  <2>2. ASSUME stage' = "failed", resolved # <<>>
        PROVE  tried' = resolved' /\ \A i \in DOMAIN resolved' : resolved'[i] \notin live'
    <3>1. Head(ips) \notin live /\ ips' = <<>>
      BY <1>1, <2>2, Zenon
    <3>2. tried' \o <<>> = tried'
      BY <1>4
    <3>3. tried' = resolved' /\ Dead(tried)'
      BY <2>1, <2>2, <3>1, <3>2, Zenon
    <3> QED
      BY <3>3, Zenon DEF Dead
  <2>3. stage' = "list" => Head(ips) \notin live
    BY <1>1, Zenon
  <2>4. resolved' = resolved
    BY <1>1, Zenon
  <2> QED
    BY <2>1, <2>2, <2>3, <2>4, Zenon DEF ListInv, LiveAddressReached
<1>11. AppliedInv'
  <2>1. BareOptions' = BareOptions
    BY <1>2, Zenon DEF BareOptions
  <2>2. applied' = applied \/ applied' = BareOptions
    BY <1>1, Zenon
  <2>3. applied' = applied => AppliedInv'
    BY <1>1, <2>1, Zenon DEF OutInv, AppliedInv
  <2>4. applied' = BareOptions => AppliedInv'
    BY <1>1, <2>1, Zenon DEF AppliedInv
  <2> QED
    BY <2>2, <2>3, <2>4, Zenon
<1> QED
  BY <1>7, <1>8, <1>9, <1>10, <1>11, Zenon DEF OutInv

\* Of what the router passed on, the dialer is given a part.
LEMMA GivenAddresses ==
    ASSUME OutInv, stage = "dialer", NEW ip \in DialerAddresses
    PROVE  ip \in IPs /\ (block_private_ip => ip \notin Private)
<1> DEFINE given == IF resolved # <<>> THEN ResolveInfo(resolved)
                    ELSE IF addr \in IPs THEN {addr} ELSE IPs
<1>1. ip \in given
  BY Zenon DEF DialerAddresses
<1>2. CASE resolved # <<>>
  <2>1. PICK i \in DOMAIN resolved : ip = resolved[i]
    BY <1>1, <1>2, Zenon DEF ResolveInfo
  <2>2. resolved \in Seq(IPs) /\ (block_private_ip => Public(resolved))
    BY Zenon DEF OutInv, TypeInv, CheckInv
  <2> QED
    BY <2>1, <2>2 DEF Public
<1>3. CASE resolved = <<>>
  BY <1>1, <1>3, Zenon DEF OutInv, CheckInv
<1> QED
  BY <1>2, <1>3, Zenon

\* The handler of an outbound dials.
LEMMA DialerKeeps == ASSUME OutInv, NEW ip \in IPs, DialerTries(ip) PROVE OutInv'
<1>1. /\ stage = "dialer" /\ handler.kind = "Direct" /\ handler.custom_dial
      /\ tried' = Append(tried, ip)
      /\ stage' = IF ip \in live THEN "connected" ELSE stage
      /\ applied' = IF ip \in live THEN DialerOptions ELSE applied
      /\ UNCHANGED <<config, dns, handler, resolved, ips>>
  BY Zenon DEF DialerTries, OutInv, PathInv
<1>2. UNCHANGED <<file, engine, block_private_ip, tcp_nodelay, addr, live, dns, Matched>>
  BY <1>1, Zenon DEF config, Matched
<1>3. block_private_ip => ip \notin Private
  BY <1>1, GivenAddresses, Zenon DEF DialerTries
<1>4. tried \in Seq(IPs)
  BY Zenon DEF OutInv, TypeInv
<1>5. /\ tried' \in Seq(IPs)
      /\ \A i \in DOMAIN tried' : (i \in DOMAIN tried /\ tried'[i] = tried[i]) \/ tried'[i] = ip
  BY <1>1, <1>4
<1>6. TypeInv'
  BY <1>1, <1>2, <1>5, Zenon DEF OutInv, TypeInv
<1>7. PathInv'
  BY <1>1, Zenon DEF OutInv, PathInv
<1>8. CheckInv'
  <2>1. ASSUME block_private_ip PROVE Public(resolved)' /\ Public(ips)' /\ Public(tried)'
    BY <1>1, <1>3, <1>5, <2>1, Zenon DEF OutInv, CheckInv, Public
  <2>2. ASSUME block_private_ip, stage' = "dialer", resolved' = <<>> PROVE addr' \in IPs \ Private
    BY <1>1, <1>2, <2>2, Zenon DEF OutInv, CheckInv
  <2>3. stage' # "lookup"
    BY <1>1, Zenon
  <2> QED
    BY <1>2, <2>1, <2>2, <2>3, Zenon DEF CheckInv
<1>9. ListInv'
  BY <1>1, Zenon DEF ListInv, LiveAddressReached
<1>10. AppliedInv'
  <2>1. DialerOptions' = DialerOptions
    BY <1>1, Zenon DEF DialerOptions
  <2>2. applied' = applied \/ applied' = DialerOptions
    BY <1>1, Zenon
  <2>3. applied' = applied => AppliedInv'
    BY <1>1, <2>1, Zenon DEF OutInv, AppliedInv
  <2>4. applied' = DialerOptions => AppliedInv'
    BY <1>1, <2>1, Zenon DEF AppliedInv
  <2> QED
    BY <2>2, <2>3, <2>4, Zenon
<1> QED
  BY <1>6, <1>7, <1>8, <1>9, <1>10 DEF OutInv

\* The handler, or a proxy, ends the request; a datagram is sent; DNS changes its
\* answer; or nothing happens.
LEMMA RestKeeps ==
    ASSUME OutInv,
           \/ DialFails \/ ProxyConnects \/ (\E ip \in IPs : UotSends(ip))
           \/ DnsChanges \/ UNCHANGED vars
    PROVE  OutInv'
<1>1. UNCHANGED <<config, handler, resolved, ips, tried, applied>>
  BY Zenon DEF DialFails, ProxyConnects, UotSends, DnsChanges, vars
<1>2. UNCHANGED <<file, engine, block_private_ip, tcp_nodelay, addr, live, Matched>>
  BY <1>1, Zenon DEF config, Matched
<1>3. dns' \in Seq(IPs)
  BY AnswersType, Zenon DEF DialFails, ProxyConnects, UotSends, DnsChanges, vars, OutInv, TypeInv
<1>4. \/ stage' = stage
      \/ stage = "proxy" /\ stage' \in {"connected", "failed"}
      \/ stage = "dialer" /\ stage' = "failed"
  BY Zenon DEF DialFails, ProxyConnects, UotSends, DnsChanges, vars
<1>5. TypeInv'
  BY <1>1, <1>2, <1>3, <1>4, Zenon DEF OutInv, TypeInv
<1>6. PathInv'
  BY <1>1, <1>4, Zenon DEF OutInv, PathInv
<1>7. CheckInv'
  BY <1>1, <1>2, <1>4, Zenon DEF OutInv, CheckInv, Public
<1>8. ListInv'
  BY <1>1, <1>2, <1>4, Zenon DEF OutInv, ListInv, PathInv, LiveAddressReached, Dead
<1>9. AppliedInv'
  <2>1. DialerOptions' = DialerOptions /\ BareOptions' = BareOptions
    BY <1>1, <1>2, Zenon DEF DialerOptions, BareOptions
  <2> QED
    BY <1>1, <1>4, <2>1, Zenon DEF OutInv, AppliedInv
<1> QED
  BY <1>5, <1>6, <1>7, <1>8, <1>9, Zenon DEF OutInv

\* Every step keeps the invariant.
LEMMA OutStep == OutInv /\ [Next]_vars => OutInv'
  BY RouteKeeps, LookupKeeps, TryKeeps, DialerKeeps, RestKeeps DEF Next, Connect

-----------------------------------------------------------------------------
\* Datagrams are sent for a magic address only.
UotInv ==
    /\ stage = "uot" => addr = Magic
    /\ datagrams # {} => addr = Magic

\* Routing leads to handle_uot_stream only from a magic address.
LEMMA RouteToUot == ASSUME OutInv, Route PROVE stage' = "uot" => addr = Magic
<1>1. stage' = Dispatch(Decision) /\ TypeInv
  BY Zenon DEF Route, Decision, OutInv
<1>2. CASE Decision \in {Reject, Proxy}
  BY <1>1, <1>2, DispatchOther, Zenon
<1>3. ASSUME NEW rs \in Seq(IPs), Decision = Direct(rs, Matched.custom_dial), Matched.kind = "Direct"
      PROVE  stage' = "uot" => addr = Magic
  <2>1. Matched.custom_dial \in BOOLEAN
    BY <1>1, <1>3, MatchedType, Zenon
  <2> QED
    BY <1>1, <1>3, <2>1, DispatchDirect
<1>4. Sound(Decision)
  BY <1>1, DecisionSound, Zenon
<1> QED
  BY <1>2, <1>3, <1>4, Zenon DEF Sound

\* Every step keeps that.
LEMMA UotStep == OutInv /\ UotInv /\ [Next]_vars => UotInv'
<1> SUFFICES ASSUME OutInv, UotInv, [Next]_vars PROVE UotInv'
  BY Zenon
<1>1. CASE Route
  BY <1>1, RouteToUot, Zenon DEF Route, UotInv, config
<1>2. CASE Connect
  BY <1>2, Zenon
      DEF Connect, LookupAddr, TryNext, DialerTries, DialFails, ProxyConnects, UotInv, config
<1>3. CASE (\E ip \in IPs : UotSends(ip)) \/ DnsChanges \/ UNCHANGED vars
  BY <1>3, Zenon DEF UotSends, DnsChanges, UotInv, vars, config
<1> QED
  BY <1>1, <1>2, <1>3, Zenon DEF Next

\* Whatever DNS answers between the check and the connection, the server opens no
\* TCP connection to a private address when they are blocked, and sends datagrams,
\* which are not checked, only for a magic address of UDP over TCP (acl.rs:671-676,
\* handler.rs:577-612, uot.rs:157-167).
THEOREM CheckedAddressesOnly == Spec => []OnlyCheckedAddresses
<1>1. Init => UotInv
  BY Zenon DEF Init, UotInv
<1>2. OutInv /\ UotInv => OnlyCheckedAddresses
  BY Zenon DEF OutInv, UotInv, CheckInv, Public, OnlyCheckedAddresses
<1> QED
  BY <1>1, <1>2, OutInit, OutStep, UotStep, PTL DEF Spec

\* A plain direct connection gives up only when all the addresses of its list were
\* tried, in their order, and none answers (handler.rs:637-639).
THEOREM ListIsExhausted == Spec => []LiveAddressReached
<1>1. OutInv => LiveAddressReached
  BY Zenon DEF OutInv, ListInv
<1> QED
  BY <1>1, OutInit, OutStep, PTL DEF Spec

\* A bare connection has the options of an outbound that asks for none.
LEMMA BareHonours ==
    ASSUME NEW d \in DirectConfigs \cup {DirectConfig}, ~custom_dial(d)
    PROVE  /\ d.mode = "auto" /\ d.fast_open = FALSE /\ d.tcp_nodelay = TRUE
           /\ \A o \in {"bind_ipv4", "bind_ipv6", "bind_device"} : d[o] = "none"
           /\ d.tcp_keepalive_secs = default_tcp_keepalive_secs
           /\ ~(d.connect_timeout_secs > 0)
  BY DEF custom_dial, DirectConfigs, DirectConfig

\* The lesser of two numbers.
LEMMA LesserOfTwo ==
    ASSUME NEW a \in Nat, NEW b \in Nat
    PROVE  Min({a, b}) = IF a < b THEN a ELSE b
<1>1. ASSUME NEW m \in {a, b}, \A y \in {a, b} : m <= y PROVE m = IF a < b THEN a ELSE b
  BY <1>1
<1>2. \E m \in {a, b} : \A y \in {a, b} : m <= y
  OBVIOUS
<1> QED
  BY <1>1, <1>2, Zenon DEF Min

\* A dialed connection has the options of its outbound, and the lesser timeout.
LEMMA DialHonours ==
    ASSUME NEW d \in DirectConfigs \cup {DirectConfig}, handler.opts = Options(d)
    PROVE  /\ DialerOptions.mode = Modes[d.mode]
           /\ \A o \in {"bind_ipv4", "bind_ipv6", "bind_device", "fast_open", "tcp_nodelay",
                        "tcp_keepalive_secs"} : DialerOptions[o] = d[o]
           /\ d.connect_timeout_secs > 0 =>
                  DialerOptions.connect_timeout_secs = Min({d.connect_timeout_secs, ConnectTimeout})
<1>1. d.connect_timeout_secs \in Nat /\ ConnectTimeout \in Nat
  BY OutboundAssumption DEF DirectConfigs, DirectConfig
<1>2. d.connect_timeout_secs > 0 =>
          DialerOptions.connect_timeout_secs =
              IF d.connect_timeout_secs < ConnectTimeout THEN d.connect_timeout_secs ELSE ConnectTimeout
  BY <1>1 DEF DialerOptions, Options, DirectConfigs, DirectConfig
<1>3. /\ DialerOptions.mode = Modes[d.mode]
      /\ \A o \in {"bind_ipv4", "bind_ipv6", "bind_device", "fast_open", "tcp_nodelay",
                   "tcp_keepalive_secs"} : DialerOptions[o] = d[o]
  BY Zenon DEF DialerOptions, Options, DirectConfigs, DirectConfig
<1> QED
  BY <1>1, <1>2, <1>3, LesserOfTwo, Zenon

\* No connect path drops an option that the file sets on the outbound of the target,
\* and only a connect timeout is changed, to the server's when that is shorter
\* (acl.rs:153-158, handler.rs:555).
THEOREM OptionsAreHonoured == Spec => []OptionsHonoured
<1>1. ASSUME OutInv, file # Absent, applied # Absent PROVE OptionsHonoured
  <2>1. /\ stage # "route" /\ handler.kind = "Direct" /\ handler = Matched
        /\ IF handler.custom_dial THEN applied = DialerOptions ELSE applied = BareOptions
    BY <1>1, Zenon DEF OutInv, AppliedInv, TypeInv
  <2>2. Matched = match_host(engine) /\ file \in Files /\ engine = AclEngine(file) /\ engine # Err
    BY <1>1, Zenon DEF OutInv, TypeInv, Matched, build_router
  <2>3. handler = AskedHandler /\ Asked \in DirectConfigs \cup {DirectConfig}
    BY <2>1, <2>2, MatchedHandler, Zenon
  <2>4. handler.custom_dial = custom_dial(Asked) /\ handler.opts = Options(Asked)
    BY <2>3, Zenon DEF AskedHandler
  <2>5. CASE custom_dial(Asked)
    <3>1. applied = DialerOptions
      BY <2>1, <2>4, <2>5, Zenon
    <3> QED
      BY <3>1, <2>3, <2>4, DialHonours, Zenon DEF OptionsHonoured
  <2>6. CASE ~custom_dial(Asked)
    <3>1. applied = BareOptions
      BY <2>1, <2>4, <2>6, Zenon
    <3>2. /\ BareOptions.mode = Modes["auto"] /\ BareOptions.fast_open = FALSE
          /\ \A o \in {"bind_ipv4", "bind_ipv6", "bind_device"} : BareOptions[o] = "none"
      BY DEF BareOptions, Options, DirectConfig
    <3> QED
      BY <2>3, <2>6, <3>1, <3>2, BareHonours, Zenon DEF OptionsHonoured
  <2> QED
    BY <2>5, <2>6, Zenon
<1>2. OutInv => OptionsHonoured
  BY <1>1, Zenon DEF OptionsHonoured
<1> QED
  BY <1>2, OutInit, OutStep, PTL DEF Spec
=============================================================================
