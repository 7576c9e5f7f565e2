------------------------------ MODULE Lifecycle ------------------------------
(***************************************************************************)
(* The life of the process (src/main.rs): after Startup the signal task,   *)
(* the select! on the server future, cancel_all, the drain loop,           *)
(* unregister and the stop of the background tasks, beside request tasks   *)
(* that keep registering and unregistering, kicks by the user sync, and    *)
(* pingora's own shutdown on its blocking thread (src/pingora_runner.rs).  *)
(***************************************************************************)
EXTENDS ConnectionManager, Startup

VARIABLES token,      \* cancel_token is cancelled
          signals,    \* the signal task: "none", "ready", "panicked"
          backend,    \* the server future: "starting", "serving", "grace", "returned"
          countShard, \* connection_count: shards already counted
          counted,    \* connection_count: sum so far
          expired,    \* drain_deadline has passed
          asked,      \* unregister was called
          background  \* the background tasks run

drain    == <<countShard, counted, expired>>
outside  == <<cmVars, startVars>>
mainVars == <<main, why, node, token, signals, backend, drain, asked, background>>

LifeInit ==
    /\ CMInit
    /\ token = FALSE
    /\ signals = "none"
    /\ backend = "starting"
    /\ countShard = 0
    /\ counted = 0
    /\ expired = FALSE
    /\ asked = FALSE
    /\ background = FALSE

Running == main \notin Starting \cup {"exited"}

\* The background tasks start with the last step of start-up.
Starts ==
    /\ StartStep
    /\ background' = (main' = "serving")
    /\ UNCHANGED <<cmVars, token, signals, backend, drain, asked>>

-----------------------------------------------------------------------------
(* Signals                                                                  *)

\* The signal task installs its handlers, or panics (in a build that unwinds);
\* main does not wait for it.
InstallHandlers ==
    /\ Running /\ signals = "none"
    /\ signals' \in {"ready", "panicked"}
    /\ UNCHANGED <<outside, main, why, node, token, backend, drain, asked, background>>

\* SIGINT or SIGTERM reaches the signal task, which cancels the token.
Signal ==
    /\ Running /\ signals = "ready" /\ ~token
    /\ token' = TRUE
    /\ UNCHANGED <<outside, main, why, node, signals, backend, drain, asked, background>>

\* A signal without a handler ends the process.
KilledLate ==
    /\ Running /\ signals # "ready"
    /\ End("killed")
    /\ UNCHANGED <<outside, node, token, signals, backend, drain, asked, background>>

\* A release build has panic = "abort": a panic of the signal task, or on the
\* thread and the runtime of pingora, ends the process.
Aborted ==
    /\ Running
    /\ signals = "none" \/ (network = "tcp" /\ backend \in {"serving", "grace"})
    /\ End("panic")
    /\ UNCHANGED <<outside, node, token, signals, backend, drain, asked, background>>

-----------------------------------------------------------------------------
(* The server future                                                        *)

\* A certificate or key that is missing, empty or without PEM markers is an error.
QuicheTlsPaths == \A f \in {"cert_file", "key_file"} : State(f) = "good"

\* IPv6 with IPv4 on the same socket, else IPv4 alone.
bind_dual_stack_udp(v6, v4) == v6 \/ v4

\* The backend reads the certificate and the key and binds its port, or fails;
\* pingora binds its port later, inside run().
BackendStarts ==
    /\ main = "serving" /\ backend = "starting"
    /\ \E v6, v4 \in BOOLEAN :
           backend' = IF /\ QuicheTlsPaths
                         /\ network = "udp" => bind_dual_stack_udp(v6, v4)
                      THEN "serving" ELSE "returned"
    /\ UNCHANGED <<outside, main, why, node, token, signals, drain, asked, background>>

\* pingora's watcher sees the token; run() returns after grace and drain.
BackendGrace ==
    /\ network = "tcp" /\ token
    /\ backend = "serving" /\ main # "exited"
    /\ backend' = "grace"
    /\ UNCHANGED <<outside, main, why, node, token, signals, drain, asked, background>>

\* The server future resolves: pingora after its shutdown, or either backend
\* because it failed or its accept loop ended.
BackendReturns ==
    /\ main # "exited"
    /\ backend = "grace" \/ (backend = "serving" /\ ~token /\ main = "serving")
    /\ backend' = "returned"
    /\ UNCHANGED <<outside, main, why, node, token, signals, drain, asked, background>>

-----------------------------------------------------------------------------
(* main after the server                                                    *)

\* Faulty variant: the server's error is returned at once.
SelectReturnsError ==
    /\ main = "serving"
    /\ token \/ backend = "returned"
    /\ IF backend = "returned" THEN End("server") ELSE Goto("serving", "cancelling")
    /\ UNCHANGED <<outside, node, token, signals, backend, drain, asked, background>>

\* select! { server future, cancel_token.cancelled() }, whichever comes first.
SelectReturns ==
    /\ Goto("serving", "cancelling")
    /\ token \/ backend = "returned"
    /\ UNCHANGED <<outside, node, token, signals, backend, drain, asked, background>>

\* Faulty variant: a server that ends by itself leaves the token alone.
CancelTokenMissing ==
    /\ Goto("cancelling", "sweeping")
    /\ UNCHANGED <<outside, node, token, signals, backend, drain, asked, background>>

\* The token is cancelled also when the server ended by itself.
CancelToken ==
    /\ Goto("cancelling", "sweeping")
    /\ token' = TRUE
    /\ UNCHANGED <<outside, node, signals, backend, drain, asked, background>>

\* conn_manager.cancel_all().
Sweep ==
    /\ main = "sweeping"
    /\ CancelAllNextShard \/ \E id \in ConnIds : CancelAllVisit(id)
    /\ UNCHANGED <<startVars, mainVars>>

\* The drain loop is skipped when cancel_all cancelled nothing.
SweepReturns ==
    /\ SweepDone
    /\ Goto("sweeping", IF sweepCount > 0 THEN "counting" ELSE "waiting")
    /\ UNCHANGED <<outside, node, token, signals, backend, drain, asked, background>>

\* connection_count() adds the shards up one after the other.
CountShard ==
    /\ main = "counting"
    /\ countShard < NumShards
    /\ countShard' = countShard + 1
    /\ counted' = counted + Cardinality({id \in DOMAIN connections :
                                            ConnShard[id] = countShard + 1})
    /\ UNCHANGED <<outside, main, why, node, token, signals, backend, expired, asked, background>>

\* Faulty variant: compares with the number cancelled instead of with zero.
CountReturnsAny ==
    /\ countShard = NumShards
    /\ Goto("counting", IF counted < sweepCount \/ expired THEN "waiting" ELSE "sleeping")
    /\ countShard' = 0
    /\ counted' = 0
    /\ UNCHANGED <<outside, node, token, signals, backend, expired, asked, background>>

CountReturns ==
    /\ countShard = NumShards
    /\ Goto("counting", IF counted = 0 \/ expired THEN "waiting" ELSE "sleeping")
    /\ countShard' = 0
    /\ counted' = 0
    /\ UNCHANGED <<outside, node, token, signals, backend, expired, asked, background>>

DrainSleep ==
    /\ Goto("sleeping", "counting")
    /\ UNCHANGED <<outside, node, token, signals, backend, drain, asked, background>>

DrainDeadline ==
    /\ main \in {"counting", "sleeping"}
    /\ ~expired
    /\ expired' = TRUE
    /\ UNCHANGED <<outside, main, why, node, token, signals, backend, countShard, counted,
                   asked, background>>

\* shutdown_handle.await: the signal task returns once the token is cancelled; if
\* it panicked, main skips the rest of the cleanup.
AwaitSignalTask ==
    /\ main = "waiting"
    /\ \/ signals = "ready" /\ token /\ Goto("waiting", "unregistering")
       \/ signals = "panicked" /\ End("signals")
    /\ UNCHANGED <<outside, node, token, signals, backend, drain, asked, background>>

\* api.unregister(); a failure is only logged.
Unregister ==
    /\ Goto("unregistering", "stopping")
    /\ asked' = TRUE
    /\ node' \in {"registered", "unregistered"}
    /\ UNCHANGED <<outside, token, signals, backend, drain, background>>

StopBackground ==
    /\ main = "stopping"
    /\ End("done")
    /\ background' = FALSE
    /\ UNCHANGED <<outside, node, token, signals, backend, drain, asked>>

-----------------------------------------------------------------------------
\* Request tasks: connections already accepted can open tunnels until the
\* process exits; only cancelled or finished tunnels unregister.
Tasks ==
    /\ Running
    /\ \/ \E id \in ConnIds, u \in Users : RegisterAllocate(id, u)
       \/ \E id \in ConnIds : RegisterPublish(id)
       \/ \E id \in ConnIds : UnregisterRemove(id) \/ UnregisterIndex(id)
    /\ UNCHANGED <<startVars, mainVars>>

\* The user sync of the background tasks.
UserSync ==
    /\ background /\ main # "exited"
    /\ \E k \in Kickers : \/ \E u \in Users : KickBegin(k, u)
                          \/ \E id \in ConnIds : KickVisit(k, id)
                          \/ KickEnd(k)
    /\ UNCHANGED <<startVars, mainVars>>

MainStep ==
    \/ CancelToken \/ Sweep \/ SweepReturns
    \/ CountShard \/ CountReturns \/ DrainSleep
    \/ AwaitSignalTask \/ Unregister \/ StopBackground

\* What happens before the select! and beside main.
Environment ==
    /\ FileChanges \/ KilledEarly
    /\ UNCHANGED <<cmVars, token, signals, backend, drain, asked, background>>

-----------------------------------------------------------------------------
(* Properties                                                               *)

\* The drain loop is honest although connection_count is no snapshot and new
\* tunnels keep registering: if main goes on before the deadline, every
\* connection that cancel_all found has left the registry.
DrainedMeansGone ==
    main \in {"waiting", "unregistering", "stopping", "exited"} /\ why \notin {"killed", "panic"} =>
        expired \/ \A id \in atSweep : id \notin DOMAIN connections

\* Whatever ends the server - a signal, a certificate that cannot be read, a port
\* that is taken, an accept loop that ends - the panel is asked to unregister the
\* node before main returns.  It is left registered unasked only by a failure
\* between initialize and the server, without handlers for signals, or by a panic
\* (main.rs:135-153, 263-309).
NodeLeftUnasked ==
    (main = "exited" /\ node = "registered" /\ ~asked) =>
        why \in {"initialize", "users", "router", "killed", "signals", "panic"}

\* Once the server has failed or a signal has come, the process goes through
\* the whole cleanup and ends, however slow the tunnels are.
ShutdownEnds == (token \/ backend = "returned") ~> (main = "exited")

\* "when cancel_token.cancel() fires, pingora drains its services and returns from
\* run(), then this future resolves, then main.rs proceeds to its own cleanup
\* (panel unregister etc.)" (pingora_runner.rs:143-145).
CleanupAfterServer == (asked /\ network = "tcp") => backend \notin {"serving", "grace"}
=============================================================================
