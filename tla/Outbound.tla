------------------------------ MODULE Outbound -------------------------------
(***************************************************************************)
(* From the target of a request to a connection: the routers               *)
(* (src/acl.rs, src/core/hooks.rs) with the private-address check on       *)
(* resolved names (src/core/dns.rs), and the connect paths of              *)
(* src/handler.rs, which run later, when DNS may answer differently.       *)
(*                                                                         *)
(* One request.  A target is an address, or one of two names: an ordinary  *)
(* one and a magic address of UDP over TCP.  The outbound for it comes     *)
(* from an ACL file, or there is no such file.  A resolution that fails    *)
(* answers <<>>, which also stands for None.                               *)
(***************************************************************************)
EXTENDS AclConfig

CONSTANTS V4, V6,    \* addresses
          Private,   \* those is_private_ipv4 and is_private_ipv6 hold of
          MaxAnswer, \* bound on the addresses of a DNS answer
          Files,     \* ACL files
          ConnectTimeout  \* connect_timeout of the server, in seconds

ASSUME OutboundAssumption ==
    /\ V4 \cap V6 = {}
    /\ Private \subseteq V4 \cup V6
    /\ MaxAnswer \in Nat \ {0}
    /\ ConnectTimeout \in Nat
    /\ Files \subseteq AclFiles

IPs == V4 \cup V6
Name == "name"
Magic == "magic"
Domains == {Name, Magic}
Answers == UNION {[1..n -> IPs] : n \in 0..MaxAnswer}

VARIABLES file,     \* the ACL file, or Absent: then the router is DirectRouter
          engine,   \* what AclEngine::new made of it
          block_private_ip,
          tcp_nodelay,
          addr,     \* the target
          live,     \* the addresses that answer within connect_timeout
          dns,      \* what the name resolves to now
          stage,    \* of the request
          handler,  \* the outbound of the request, Absent before it is routed
          resolved, \* the addresses the router passes on
          ips,      \* addresses still to be tried
          tried,    \* addresses a connection was attempted to, in order
          applied,  \* the dialing options of the connection, Absent before
          datagrams \* addresses a datagram of UDP over TCP was sent to

config == <<file, engine, block_private_ip, tcp_nodelay, addr, live>>
vars == <<config, dns, stage, handler, resolved, ips, tried, applied, datagrams>>

Final == {"reject", "uot", "connected", "failed"}

\* build_router: without a file there is no engine; a file it cannot be built from
\* ends the program before there is a request.
build_router(f) == IF f = Absent THEN Absent ELSE AclEngine(f)

Init ==
    /\ file \in Files \cup {Absent}
    /\ engine = build_router(file)
    /\ engine # Err
    /\ block_private_ip \in BOOLEAN
    /\ tcp_nodelay \in BOOLEAN
    /\ addr \in IPs \cup Domains
    /\ live \in SUBSET IPs
    /\ dns \in Answers
    /\ stage = "route"
    /\ handler = Absent
    /\ resolved = <<>>
    /\ ips = <<>>
    /\ tried = <<>>
    /\ applied = Absent
    /\ datagrams = {}

-----------------------------------------------------------------------------
(* Routing                                                                  *)

\* An address is checked itself; a name is private when one of its addresses is,
\* and otherwise its addresses are passed on.
check_private_and_resolve(a, answer) ==
    IF a \in IPs
    THEN [private |-> a \in Private, ips |-> <<>>]
    ELSE IF \E i \in DOMAIN answer : answer[i] \in Private
    THEN [private |-> TRUE, ips |-> <<>>]
    ELSE [private |-> FALSE, ips |-> answer]

Reject == [type |-> "Reject", resolved |-> <<>>, custom |-> FALSE]
Direct(rs, custom) == [type |-> "Direct", resolved |-> rs, custom |-> custom]
Proxy == [type |-> "Proxy", resolved |-> <<>>, custom |-> FALSE]

\* Faulty variant: a name that does not resolve is connected to.
direct_decisionOpen(a, rs, custom) == Direct(rs, custom)

\* Fails closed: a name that could not be resolved was not checked.
direct_decision(a, rs, custom) ==
    IF block_private_ip /\ rs = <<>> /\ a \in Domains THEN Reject ELSE Direct(rs, custom)

route_addr_with_resolved(a, rs) ==
    LET matched == match_host(engine)
    IN CASE matched.kind = "Direct" -> direct_decision(a, rs, matched.custom_dial)
         [] matched.kind \in {"Socks5", "Http"} -> Proxy
         [] matched.kind = "Reject" -> Reject

AclRoute(a, answer) ==
    LET check == check_private_and_resolve(a, answer)
    IN IF ~block_private_ip THEN route_addr_with_resolved(a, <<>>)
       ELSE IF check.private THEN Reject
       ELSE route_addr_with_resolved(a, check.ips)

DirectRoute(a, answer) ==
    LET check == check_private_and_resolve(a, answer)
    IN IF ~block_private_ip THEN Direct(<<>>, FALSE)
       ELSE IF check.private \/ (check.ips = <<>> /\ a \in Domains) THEN Reject
       ELSE Direct(check.ips, FALSE)

\* Where process_tunnel and handle_direct_connect go with a decision.  For a magic
\* address that is not rejected the rest of the decision is not used.
Dispatch(decision) ==
    CASE decision.type = "Reject" -> "reject"
      [] decision.type # "Reject" /\ addr = Magic -> "uot"
      [] decision.type = "Proxy" /\ addr # Magic -> "proxy"
      [] decision.type = "Direct" /\ addr # Magic ->
             IF decision.custom THEN "dialer"
             ELSE IF decision.resolved # <<>> THEN "list" ELSE "lookup"

\* The name is resolved once, and only if private addresses are blocked.
Route ==
    LET decision == IF file = Absent THEN DirectRoute(addr, dns) ELSE AclRoute(addr, dns)
    IN /\ stage = "route"
       /\ stage' = Dispatch(decision)
       /\ handler' = IF file = Absent THEN PlainDirect ELSE match_host(engine)
       /\ resolved' = decision.resolved
       /\ ips' = IF stage' = "list" THEN decision.resolved ELSE <<>>
       /\ UNCHANGED <<config, dns, tried, applied, datagrams>>

-----------------------------------------------------------------------------
(* connect_direct                                                           *)

\* resolve_socket_addr: an address stands for itself, of a name's addresses only
\* the first is used.
LookupAddr ==
    /\ stage = "lookup"
    /\ ips' = IF addr \in IPs THEN <<addr>> ELSE SubSeq(dns, 1, IF dns = <<>> THEN 0 ELSE 1)
    /\ stage' = IF ips' = <<>> THEN "failed" ELSE "list"
    /\ UNCHANGED <<config, dns, handler, resolved, tried, applied, datagrams>>

\* apply_socket_opts and the timeout of connect_one.
TCP_KEEPALIVE_SECS == 15
BareOptions ==
    [Options(DirectConfig) EXCEPT !.tcp_nodelay = tcp_nodelay,
                                  !.tcp_keepalive_secs = TCP_KEEPALIVE_SECS,
                                  !.connect_timeout_secs = ConnectTimeout]

\* Faulty variant: the first address decides.
TryNextOnly ==
    /\ stage = "list"
    /\ tried' = Append(tried, Head(ips))
    /\ ips' = Tail(ips)
    /\ stage' = IF Head(ips) \in live THEN "connected" ELSE "failed"
    /\ UNCHANGED <<config, dns, handler, resolved, applied, datagrams>>

\* Faulty variant: an address that does not answer is tried again.
TryNextAgain ==
    /\ stage = "list"
    /\ tried' = <<Head(ips)>>
    /\ stage' = IF Head(ips) \in live THEN "connected" ELSE "list"
    /\ UNCHANGED <<config, dns, handler, resolved, ips, applied, datagrams>>

\* connect_ip_list and connect_one: every address has its own timeout, and the
\* next one is tried when it is refused or does not answer.
TryNext ==
    /\ stage = "list"
    /\ tried' = Append(tried, Head(ips))
    /\ ips' = Tail(ips)
    /\ stage' = IF Head(ips) \in live THEN "connected"
                ELSE IF ips' = <<>> THEN "failed" ELSE "list"
    /\ applied' = IF stage' = "connected" THEN BareOptions ELSE applied
    /\ UNCHANGED <<config, dns, handler, resolved, datagrams>>

-----------------------------------------------------------------------------
(* Dialing through an outbound's handler                                    *)

\* resolve_info_from_ips: the first address of each family.
ResolveInfo(rs) ==
    { rs[i] : i \in { j \in DOMAIN rs :
        \A k \in 1..(j - 1) : (rs[k] \in V4) # (rs[j] \in V4) } }

\* The addresses a handler with dialing options of its own may connect to: those
\* it is given, or the target, or what its own resolver says; of the families its
\* mode admits.
DialerAddresses ==
    LET mode == handler.opts.mode
        given == IF resolved # <<>> THEN ResolveInfo(resolved)
                 ELSE IF addr \in IPs THEN {addr} ELSE IPs
    IN { ip \in given : (mode = "Only4" => ip \in V4) /\ (mode = "Only6" => ip \in V6) }

\* The handler applies its options, inside the timeout of the server, which ends
\* the dialing when it is the shorter one.
DialerOptions ==
    [handler.opts EXCEPT !.connect_timeout_secs =
        IF @ < ConnectTimeout THEN @ ELSE ConnectTimeout]

DialerTries(ip) ==
    /\ stage = "dialer"
    /\ ip \in DialerAddresses
    /\ \A i \in DOMAIN tried : tried[i] # ip
    /\ tried' = Append(tried, ip)
    /\ stage' = IF ip \in live THEN "connected" ELSE stage
    /\ applied' = IF ip \in live THEN DialerOptions ELSE applied
    /\ UNCHANGED <<config, dns, handler, resolved, ips, datagrams>>

\* The handler fails, or connect_timeout passes.
DialFails ==
    /\ stage \in {"dialer", "proxy"}
    /\ stage' = "failed"
    /\ UNCHANGED <<config, dns, handler, resolved, ips, tried, applied, datagrams>>

\* The proxy connects to the target; the server only to the proxy.
ProxyConnects ==
    /\ stage = "proxy"
    /\ stage' = "connected"
    /\ UNCHANGED <<config, dns, handler, resolved, ips, tried, applied, datagrams>>

\* handle_uot_stream: a datagram (or, in version 2, the request) names an address,
\* or a name that resolve_host resolves there and then.  Neither is checked.
UotSends(ip) ==
    /\ stage = "uot"
    /\ datagrams' = datagrams \cup {ip}
    /\ UNCHANGED <<config, dns, stage, handler, resolved, ips, tried, applied>>

\* The next resolution answers differently, or fails.
DnsChanges ==
    /\ stage \notin Final
    /\ dns' \in Answers \ {dns}
    /\ UNCHANGED <<config, stage, handler, resolved, ips, tried, applied, datagrams>>

Connect ==
    \/ LookupAddr \/ TryNext
    \/ \E ip \in IPs : DialerTries(ip)
    \/ DialFails \/ ProxyConnects

Next == Route \/ Connect \/ (\E ip \in IPs : UotSends(ip)) \/ DnsChanges

Spec == Init /\ [][Next]_vars

\* Routing and connecting are under the timeouts of the resolver and of connect.
Fairness == WF_vars(Route) /\ WF_vars(Connect)

FairSpec == Spec /\ Fairness

-----------------------------------------------------------------------------
(* Properties                                                               *)

\* With block_private_ip the server opens TCP connections only to addresses that
\* passed the check, although DNS may change its answer between the check and the
\* connection: "a direct domain the server could not resolve [...] must be
\* rejected rather than handed to a connect/dialer path that would re-resolve it"
\* (acl.rs:671-676).  The check does not extend to the datagrams of UDP over TCP,
\* whose destinations uot.rs:157-167 resolves by itself: private addresses are out of
\* reach only of requests for another target than a magic address.
OnlyCheckedAddresses ==
    block_private_ip =>
        /\ \A i \in DOMAIN tried : tried[i] \notin Private
        /\ addr # Magic => datagrams \cap Private = {}

\* "a dead (refused or black-holed) address is skipped and a later live one still
\* connects" (handler.rs:637-639): a plain direct connection fails only after
\* every address the router passed on was tried, in order, and none is live.
LiveAddressReached ==
    (stage = "failed" /\ resolved # <<>> /\ ~handler.custom_dial) =>
        /\ tried = resolved
        /\ \A i \in DOMAIN resolved : resolved[i] \notin live

\* The options the file asks for on the outbound of the target: those of the last
\* entry of the name that the first matching rule gives, or of "direct".
Asked ==
    LET named == Named(file.outbounds, Target(file.rules))
    IN IF named = {} \/ file.outbounds[Max(named)].direct = Absent THEN DirectConfig
       ELSE file.outbounds[Max(named)].direct

\* A connection has every dialing option the file sets on its outbound, whichever
\* connect path it took, "so the router routes such handlers through their own
\* dialer" (acl.rs:153-158), except that a connect timeout is capped: it is the
\* lesser of the outbound's and the server's (handler.rs:555).  What is left at its
\* default may be the server's.
OptionsHonoured ==
    (file # Absent /\ applied # Absent) =>
        /\ applied.mode = Modes[Asked.mode]
        /\ \A o \in {"bind_ipv4", "bind_ipv6", "bind_device", "fast_open"} :
               applied[o] = Asked[o]
        /\ ~Asked.tcp_nodelay => ~applied.tcp_nodelay
        /\ Asked.tcp_keepalive_secs # default_tcp_keepalive_secs =>
               applied.tcp_keepalive_secs = Asked.tcp_keepalive_secs
        /\ Asked.connect_timeout_secs > 0 =>
               applied.connect_timeout_secs = Min({Asked.connect_timeout_secs, ConnectTimeout})

\* A request that was routed gets an answer from the connect path, so that a tunnel
\* which was kicked meanwhile comes to look at its token (handler.rs:590, 555).
ConnectEnds == <>(stage \in Final)
=============================================================================
