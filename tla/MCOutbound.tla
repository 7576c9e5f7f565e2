------------------------------ MODULE MCOutbound ------------------------------
(* Outbound for TLC; a request that was answered is over.                   *)
EXTENDS Outbound, TLC

To(name) == [to |-> name, hits |-> TRUE]
Miss(name) == [to |-> name, hits |-> FALSE]
DirectEntry(name, d) == [Entry(name, "direct") EXCEPT !.direct = d]

\* One option, or two, off their defaults.
Settings ==
    LET once(d) == { [d EXCEPT !.mode = m] : m \in {"only4", "only6", "prefer4", "prefer6", "seven"} }
            \cup { [d EXCEPT !.bind_ipv4 = b] : b \in {"ok", "bad"} }
            \cup { [d EXCEPT !.bind_ipv6 = b] : b \in {"ok", "bad"} }
            \cup { [d EXCEPT !.bind_device = b] : b \in {"ok", "bad"} }
            \cup { [d EXCEPT !.fast_open = TRUE], [d EXCEPT !.tcp_nodelay = FALSE] }
            \cup { [d EXCEPT !.tcp_keepalive_secs = k] : k \in {0, 15} }
            \cup { [d EXCEPT !.connect_timeout_secs = t] : t \in {1, 30} }
    IN {DirectConfig} \cup once(DirectConfig) \cup once([DirectConfig EXCEPT !.fast_open = TRUE])

\* Files whose entries and rules go through the outbounds' kinds.
KindFiles ==
    { [outbounds |-> <<>>, rules |-> <<>>],
      [outbounds |-> <<>>, rules |-> <<Miss("reject"), To("direct")>>],
      [outbounds |-> <<>>, rules |-> <<To("reject"), To("direct")>>],
      [outbounds |-> <<>>, rules |-> <<To("nowhere")>>],
      [outbounds |-> <<Entry("x", "tor")>>, rules |-> <<>>],
      [outbounds |-> <<Entry("x", "socks5")>>, rules |-> <<To("x")>>],
      [outbounds |-> <<Entry("x", "direct")>>, rules |-> <<To("x")>>],
      [outbounds |-> <<DirectEntry("x", [DirectConfig EXCEPT !.bind_ipv4 = "ok"])>>,
       rules |-> <<To("x")>>] }
    \cup { [outbounds |-> <<[Entry("x", "socks5") EXCEPT !.socks5 =
                [Socks5Config EXCEPT !.username = u, !.password = p, !.addr = a]]>>,
            rules |-> <<To("x")>>] : u \in BOOLEAN, p \in {TRUE}, a \in {"ok", "bad"} }
    \cup { [outbounds |-> <<[Entry("x", "http") EXCEPT !.http =
                [HttpConfig EXCEPT !.https = t, !.addr = a]]>>,
            rules |-> <<To("x")>>] : t \in {TRUE}, a \in {"ok", "bad"} }

\* Files about a direct outbound's options: named by a rule, or the fallback, or
\* the last of two entries of its name.
OptionFiles ==
    { [outbounds |-> <<DirectEntry("x", d)>>, rules |-> <<To("x")>>] : d \in Settings }
    \cup { [outbounds |-> <<DirectEntry("direct", d)>>, rules |-> <<Miss("reject")>>] : d \in Settings }
    \cup { [outbounds |-> <<Entry("x", "reject"), DirectEntry("x", d)>>, rules |-> <<To("x")>>]
             : d \in Settings }

MCFiles == KindFiles \cup OptionFiles

\* The addresses and their answers vary with the kinds, the options on their own.
MCInit ==
    /\ Init
    /\ file \in OptionFiles => addr = Name /\ live = IPs /\ Len(dns) = 1
    /\ file \notin OptionFiles => tcp_nodelay

Over == stage \in Final /\ UNCHANGED vars

MCSpec == MCInit /\ [][Next \/ Over]_vars
MCFairSpec == MCSpec /\ Fairness
=============================================================================
