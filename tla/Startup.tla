------------------------------- MODULE Startup -------------------------------
(***************************************************************************)
(* From the command line to a server (src/main.rs up to its select!):      *)
(* parsing and validating the options (src/config.rs), the calls to the    *)
(* panel, the router, max_connections (AutoTune) and the server object     *)
(* (src/core/server.rs).  Every step may fail, files may change between    *)
(* the step that checks them and the step that reads them, and a signal    *)
(* that comes before its handlers are installed ends the process at once.  *)
(*                                                                         *)
(* Durations are in milliseconds.  The text of a number is abstracted to   *)
(* its form and the number.                                                *)
(***************************************************************************)
EXTENDS AutoTune, FiniteSets

CONSTANTS CommandLines,         \* command lines to start with
          Cpus, MemKb, Nofile   \* machines to start on

ASSUME StartupAssumption ==
    /\ Cpus \cup MemKb \cup Nofile \subseteq 0..MaxU64
    /\ \A c \in CommandLines :
           c.max_connections \in [form : {"auto", "integer", "word"}, value : Nat]

VARIABLES cli,      \* the command line
          broken,   \* the file that is not as it should be, and how; or NoFile
          network,  \* "tcp" or "udp" once the panel has said so
          nofile_soft, max_connections, \* the machine, and what resolve made of it
          main,     \* position of main
          why,      \* why main ended
          node      \* the panel's view of the node

startVars == <<cli, broken, network, nofile_soft, max_connections>>

Files == {"cert_file", "key_file", "acl_conf_file"}
NoFile == [file |-> "none", how |-> "good"]
Faults == [file : Files, how : {"missing", "garbage"}]
State(f) == IF broken.file = f THEN broken.how ELSE "good"

-----------------------------------------------------------------------------
(* The command line                                                         *)

Text(form, value) == [form |-> form, value |-> value]
Invalid == -1

\* humantime, else a number of seconds.
parse_duration(text) ==
    CASE text.form = "humantime" -> text.value
      [] text.form = "integer" -> 1000 * text.value
      [] text.form = "word" -> Invalid

parse_ip_version(text) == text \in {"4", "v4", "ipv4", "6", "v6", "ipv6", "auto"}

\* MaxConnections::from_str: Auto is 0, and the number 0 is refused.
max_connections_from_str(text) ==
    CASE text.form = "auto" -> 0
      [] text.form = "integer" -> IF text.value > 0 THEN text.value ELSE Invalid
      [] text.form = "word" -> Invalid

Intervals == {"fetch_users_interval", "report_traffics_interval", "heartbeat_interval"}
Timeouts == {"conn_idle_timeout", "tcp_connect_timeout", "request_timeout",
             "tls_handshake_timeout", "uplink_only_timeout", "downlink_only_timeout"}

\* The options start-up looks at, with the defaults of those that have one.
CliArgs ==
    [api |-> "url", node |-> 1, cert_file |-> "path", key_file |-> "path",
     durations |-> [o \in Intervals \cup Timeouts |-> Text("humantime", 60000)],
     log_mode |-> "info", acl_conf_file |-> "none", panel_ip_version |-> "v4",
     max_connections |-> Text("auto", 0)]

\* parse_args: clap ends the process when a value does not parse.
parse_args(c) ==
    /\ \A o \in Intervals \cup Timeouts : parse_duration(c.durations[o]) # Invalid
    /\ parse_ip_version(c.panel_ip_version)
    /\ max_connections_from_str(c.max_connections) # Invalid

yaml(c) == c.acl_conf_file \in {"yaml", "yml"}

\* Faulty variant: forgets the extension of the ACL file.
validateAnyExtension(c) ==
    /\ c.api # "" /\ c.node # 0 /\ c.cert_file # "" /\ c.key_file # ""
    /\ \A f \in {"cert_file", "key_file"} : State(f) # "missing"
    /\ \A o \in Intervals : parse_duration(c.durations[o]) > 0
    /\ c.log_mode \in {"trace", "debug", "info", "warn", "error"}
    /\ c.acl_conf_file # "none" => State("acl_conf_file") # "missing"

\* Only the existence of the files is looked at.
validate(c) ==
    /\ c.api # "" /\ c.node # 0 /\ c.cert_file # "" /\ c.key_file # ""
    /\ \A f \in {"cert_file", "key_file"} : State(f) # "missing"
    /\ \A o \in Intervals : parse_duration(c.durations[o]) > 0
    /\ c.log_mode \in {"trace", "debug", "info", "warn", "error"}
    /\ c.acl_conf_file # "none" => State("acl_conf_file") # "missing" /\ yaml(c)

-----------------------------------------------------------------------------
StartInit ==
    /\ cli \in CommandLines
    /\ broken \in Faults \cup {NoFile}
    /\ network = "unknown"
    /\ nofile_soft = 0
    /\ max_connections = 0
    /\ main = "parsing"
    /\ why = "none"
    /\ node = "absent"

Starting == {"parsing", "validating", "api", "config", "initialize", "users", "router", "build"}

Goto(from, to) == main = from /\ main' = to /\ UNCHANGED why

\* main returns an error, or the process is ended.
End(reason) == main' = "exited" /\ why' = reason

\* A step that goes on to the next one when ok holds, and ends main otherwise.
Try(from, ok, to) == main = from /\ IF ok THEN Goto(from, to) ELSE End(from)

ParseArgs ==
    /\ Try("parsing", parse_args(cli), "validating")
    /\ UNCHANGED <<startVars, node>>

Validate ==
    /\ Try("validating", validate(cli), "api")
    /\ UNCHANGED <<startVars, node>>

\* ApiManager::new.
NewApi ==
    /\ \E ok \in BOOLEAN : Try("api", ok, "config")
    /\ UNCHANGED <<startVars, node>>

NaiveNetwork == {"tcp", "udp"}

\* The answer of the panel parses unless it is for another kind of node or no such
\* JSON.  What is left out has a default: the network is tcp.
parse_naive_config(answer) ==
    CASE answer \in NaiveNetwork -> answer
      [] answer = "default" -> "tcp"
      [] OTHER -> "Err"

\* The call fails, its answer does not parse, or it names the network.
FetchConfig ==
    /\ \E answer \in {"error", "other", "junk", "default"} \cup NaiveNetwork :
           LET parsed == parse_naive_config(answer)
           IN /\ Try("config", parsed # "Err", "initialize")
              /\ network' = IF parsed # "Err" THEN parsed ELSE network
    /\ UNCHANGED <<cli, broken, nofile_soft, max_connections, node>>

\* initialize registers the node; the answer may be lost.
Initialize ==
    /\ \E ok \in BOOLEAN :
           /\ Try("initialize", ok, "users")
           /\ node' \in IF ok THEN {"registered"} ELSE {"absent", "registered"}
    /\ UNCHANGED startVars

FetchUsers ==
    /\ \E ok \in BOOLEAN : Try("users", ok, "router")
    /\ UNCHANGED <<startVars, node>>

\* The file can be read and parsed.
load_acl_config == State("acl_conf_file") = "good"

\* AclEngine::new: the rules compile.  Those that name a country or a site need the
\* geo data, loaded from data_dir or downloaded, which fails or not whatever the file.
AclEngineNew == BOOLEAN

\* build_router looks at the path again, reads the file and compiles its rules.
BuildRouter ==
    /\ \E compiled \in AclEngineNew :
           Try("router",
               cli.acl_conf_file # "none" => yaml(cli) /\ load_acl_config /\ compiled,
               "build")
    /\ UNCHANGED <<startVars, node>>

\* resolve, ConnConfig::from_cli, the server object, the background tasks and the
\* signal task.  A background task cannot tick with an interval of zero.
Build ==
    /\ main = "build"
    /\ \E cpus \in Cpus, total_mem_kb \in MemKb :
           /\ nofile_soft' \in Nofile
           /\ max_connections' = Resolved(max_connections_from_str(cli.max_connections),
                                          compute_auto(cpus, total_mem_kb, nofile_soft'))
    /\ IF \A o \in Intervals : parse_duration(cli.durations[o]) > 0
       THEN Goto("build", "serving") ELSE End("build")
    /\ UNCHANGED <<cli, broken, network, node>>

\* A file is removed, spoilt or repaired while the process starts.
FileChanges ==
    /\ main \in Starting
    /\ broken' \in Faults \cup {NoFile}
    /\ UNCHANGED <<cli, network, nofile_soft, max_connections, main, why, node>>

\* SIGINT or SIGTERM without a handler.
KilledEarly ==
    /\ main \in Starting
    /\ End("killed")
    /\ UNCHANGED <<startVars, node>>

StartStep ==
    \/ ParseArgs \/ Validate \/ NewApi \/ FetchConfig \/ Initialize
    \/ FetchUsers \/ BuildRouter \/ Build

-----------------------------------------------------------------------------
(* Properties                                                               *)

\* What the command line gets wrong by itself is found out before the panel hears of
\* the node.  Once it is registered, start-up fails only because of a signal, of the
\* panel (initialize, users), or of an ACL file with the right extension, whose
\* contents and geo data are looked at only then (config.rs:202-263 against
\* main.rs:49-63, 199-234 and acl.rs:469-525).
ArgumentsFailFirst ==
    (main = "exited" /\ node # "absent") =>
        /\ why \notin {"parsing", "validating", "api", "config", "build"}
        /\ why = "router" => yaml(cli)
=============================================================================
