------------------------------ MODULE AclConfig ------------------------------
(***************************************************************************)
(* From the ACL file to outbounds and rules: OutboundHandler::from_entry   *)
(* and AclEngine of src/acl.rs.                                            *)
(*                                                                         *)
(* A file is a sequence of outbound entries and a sequence of rules.  A    *)
(* rule names an outbound and either matches the target of the request at  *)
(* hand or not.  The text of an option is abstracted to what parsing it,   *)
(* and binding a test socket with it, comes to: "none" when it is absent,  *)
(* "ok", or "bad".                                                         *)
(***************************************************************************)
EXTENDS Integers, Sequences, FiniteSetsExt

default_tcp_keepalive_secs == 60

\* DirectConfig::default, also what serde fills in for options left out.
DirectConfig ==
    [mode |-> "auto", bind_ipv4 |-> "none", bind_ipv6 |-> "none", bind_device |-> "none",
     fast_open |-> FALSE, tcp_nodelay |-> TRUE,
     tcp_keepalive_secs |-> default_tcp_keepalive_secs, connect_timeout_secs |-> 0]

\* Socks5Config and HttpConfig: which credentials are given, UDP, TLS.
Socks5Config == [username |-> FALSE, password |-> FALSE, allow_udp |-> TRUE, addr |-> "ok"]
HttpConfig == [username |-> FALSE, password |-> FALSE, https |-> FALSE, addr |-> "ok"]

\* An entry with no section of its own; Absent stands for None.
Absent == [absent |-> TRUE]
Entry(name, type) ==
    [name |-> name, type |-> type, direct |-> Absent, socks5 |-> Absent, http |-> Absent]

\* What serde makes of a file: the types of the structs, whatever their values.
DirectConfigs ==
    [mode : STRING, bind_ipv4 : STRING, bind_ipv6 : STRING, bind_device : STRING,
     fast_open : BOOLEAN, tcp_nodelay : BOOLEAN,
     tcp_keepalive_secs : Nat, connect_timeout_secs : Nat]
Socks5Configs == [username : BOOLEAN, password : BOOLEAN, allow_udp : BOOLEAN, addr : STRING]
HttpConfigs == [username : BOOLEAN, password : BOOLEAN, https : BOOLEAN, addr : STRING]
OutboundEntries ==
    [name : STRING, type : STRING, direct : DirectConfigs \cup {Absent},
     socks5 : Socks5Configs \cup {Absent}, http : HttpConfigs \cup {Absent}]
Rules == [to : STRING, hits : BOOLEAN]
AclFiles == [outbounds : Seq(OutboundEntries), rules : Seq(Rules)]

Modes == [auto |-> "Auto", only4 |-> "Only4", only6 |-> "Only6",
          prefer4 |-> "Prefer46", prefer6 |-> "Prefer64"]

Err == [kind |-> "Err"]

-----------------------------------------------------------------------------
(* Outbounds                                                                *)

\* Faulty variant: an outbound's own connect timeout is not a reason to dial
\* through it.
custom_dialNoTimeout(d) ==
    \/ \E o \in {"bind_ipv4", "bind_ipv6", "bind_device"} : d[o] # "none"
    \/ d.mode # "auto" \/ d.fast_open \/ ~d.tcp_nodelay
    \/ d.tcp_keepalive_secs # default_tcp_keepalive_secs

\* An option is set that the bare connect path cannot apply.
custom_dial(d) ==
    \/ \E o \in {"bind_ipv4", "bind_ipv6", "bind_device"} : d[o] # "none"
    \/ d.mode # "auto" \/ d.fast_open \/ ~d.tcp_nodelay
    \/ d.tcp_keepalive_secs # default_tcp_keepalive_secs
    \/ d.connect_timeout_secs > 0

\* The timeout of a dialer that is given none.
DialTimeout == 10

\* DirectOptions; a keepalive of 0 is none.
Options(d) ==
    [d EXCEPT !.mode = Modes[@],
              !.connect_timeout_secs = IF @ = 0 THEN DialTimeout ELSE @]

\* The "direct" arm: an unknown mode, or an address or device that does not parse
\* or cannot be bound now, is an error.
from_direct(config) ==
    LET d == IF config = Absent THEN DirectConfig ELSE config
    IN IF \/ d.mode \notin DOMAIN Modes
          \/ \E o \in {"bind_ipv4", "bind_ipv6", "bind_device"} : d[o] = "bad"
       THEN Err
       ELSE [kind |-> "Direct", custom_dial |-> custom_dial(d), opts |-> Options(d)]

\* Credentials count only when both are given.
from_entry(entry) ==
    CASE entry.type = "direct" -> from_direct(entry.direct)
      [] entry.type = "socks5" ->
             IF entry.socks5 = Absent THEN Err
             ELSE LET auth == entry.socks5.username /\ entry.socks5.password
                  IN IF auth /\ entry.socks5.addr = "bad" THEN Err
                     ELSE [kind |-> "Socks5", auth |-> auth, allow_udp |-> entry.socks5.allow_udp]
      [] entry.type = "http" ->
             IF entry.http = Absent \/ (entry.http.https /\ entry.http.addr = "bad") THEN Err
             ELSE [kind |-> "Http", auth |-> entry.http.username /\ entry.http.password]
      [] entry.type = "reject" -> [kind |-> "Reject"]
      [] OTHER -> Err

-----------------------------------------------------------------------------
(* The engine                                                               *)

\* Direct::new() with no options.
PlainDirect == [kind |-> "Direct", custom_dial |-> FALSE, opts |-> Options(DirectConfig)]

\* The positions of the entries of a name.
Named(entries, name) == { i \in DOMAIN entries : entries[i].name = name }

\* The entries inserted one by one, a later one replacing an earlier one of its name.
Inserted(entries) ==
    [n \in { entries[i].name : i \in DOMAIN entries } |->
        from_entry(entries[Max(Named(entries, n))])]

\* entry(..).or_insert_with(..): what is there stays.
or_insert(outbounds, name, handler) ==
    [n \in DOMAIN outbounds \cup {name} |->
        IF n \in DOMAIN outbounds THEN outbounds[n] ELSE handler]

\* compile: fails when a rule names an outbound that does not exist.
Compiles(rules, outbounds) == \A i \in DOMAIN rules : rules[i].to \in DOMAIN outbounds

\* AclEngine::new: one entry that fails fails the engine.
AclEngine(file) ==
    LET outbounds == or_insert(or_insert(Inserted(file.outbounds), "reject", [kind |-> "Reject"]),
                               "direct", PlainDirect)
        rules == IF file.rules = <<>> THEN <<[to |-> "direct", hits |-> TRUE]>> ELSE file.rules
    IN IF \/ \E i \in DOMAIN file.outbounds : from_entry(file.outbounds[i]) = Err
          \/ ~Compiles(rules, outbounds)
       THEN Err
       ELSE [kind |-> "Engine", outbounds |-> outbounds, rules |-> rules]

\* The first rule that matches decides; without one the outbound named direct.
Target(rules) ==
    LET hits == { i \in DOMAIN rules : rules[i].hits }
    IN IF hits = {} THEN "direct" ELSE rules[Min(hits)].to

match_host(engine) == engine.outbounds[Target(engine.rules)]
=============================================================================
