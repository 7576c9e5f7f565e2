------------------------------- MODULE Accept --------------------------------
(***************************************************************************)
(* The accept loop of run_h3_server_quiche (src/quiche_runner.rs), which   *)
(* applies the limit that Startup derived.  Connections come from the      *)
(* listener one by one, a semaphore bounds how many are served, a task per *)
(* connection reads its events and starts a task per request.              *)
(***************************************************************************)
EXTENDS Startup

CONSTANTS Conns,            \* connections clients open
          MaxRequests       \* bound on the open requests of a connection

ASSUME AcceptAssumption ==
    /\ IsFiniteSet(Conns)
    /\ MaxRequests \in Nat

VARIABLES loop,     \* the accept loop: "off", "next", "permit", "ended"
          listener, \* the listener is open
          conn,     \* "away", "queued", "accepted", "served", "closed"
          permits,  \* of the semaphore
          requests  \* request tasks of each connection

acceptVars == <<loop, listener, conn, permits, requests>>

Served == { c \in Conns : conn[c] = "served" }

\* conn_limiter: there is one unless the limit is zero.
Limited == max_connections > 0

AcceptInit ==
    /\ loop = "off"
    /\ listener = FALSE
    /\ conn = [c \in Conns |-> "away"]
    /\ permits = 0
    /\ requests = [c \in Conns |-> 0]

\* The socket is bound: the semaphore is made and the loop entered.
Listen ==
    /\ loop' = "next"
    /\ listener' = TRUE
    /\ permits' = max_connections
    /\ UNCHANGED <<conn, requests>>

\* A client connects.
Arrives(c) ==
    /\ listener /\ conn[c] = "away"
    /\ conn' = [conn EXCEPT ![c] = "queued"]
    /\ UNCHANGED <<loop, listener, permits, requests>>

\* listener.next() yields a connection: it waits for a permit, or is served.
AcceptNext(c) ==
    /\ loop = "next" /\ conn[c] = "queued"
    /\ IF Limited
       THEN loop' = "permit" /\ conn' = [conn EXCEPT ![c] = "accepted"]
       ELSE UNCHANGED loop /\ conn' = [conn EXCEPT ![c] = "served"]
    /\ UNCHANGED <<listener, permits, requests>>

\* Faulty variant: an error ends the loop.
AcceptErrorEnds(c) ==
    /\ loop = "next" /\ conn[c] = "queued"
    /\ conn' = [conn EXCEPT ![c] = "closed"]
    /\ loop' = "ended"
    /\ UNCHANGED <<listener, permits, requests>>

\* listener.next() yields an error, which is logged.
AcceptError(c) ==
    /\ loop = "next" /\ conn[c] = "queued"
    /\ conn' = [conn EXCEPT ![c] = "closed"]
    /\ UNCHANGED <<loop, listener, permits, requests>>

\* acquire_owned: nothing else is accepted until a permit is free.
AcquirePermit(c) ==
    /\ loop = "permit" /\ conn[c] = "accepted"
    /\ permits > 0
    /\ permits' = permits - 1
    /\ conn' = [conn EXCEPT ![c] = "served"]
    /\ loop' = "next"
    /\ UNCHANGED <<listener, requests>>

\* A Headers event: the request gets a task of its own, without a permit.
Headers(c) ==
    /\ conn[c] = "served"
    /\ requests[c] < MaxRequests
    /\ requests' = [requests EXCEPT ![c] = @ + 1]
    /\ UNCHANGED <<loop, listener, conn, permits>>

RequestEnds(c) ==
    /\ requests[c] > 0
    /\ requests' = [requests EXCEPT ![c] = @ - 1]
    /\ UNCHANGED <<loop, listener, conn, permits>>

\* Faulty variant: the permit is forgotten.
ConnectionEndsLeaks(c) ==
    /\ conn[c] = "served"
    /\ conn' = [conn EXCEPT ![c] = "closed"]
    /\ UNCHANGED <<loop, listener, permits, requests>>

\* ConnectionError, ConnectionShutdown or the end of the events: the task returns
\* and its permit with it.  Its requests may go on for a while.
ConnectionEnds(c) ==
    /\ conn[c] = "served"
    /\ conn' = [conn EXCEPT ![c] = "closed"]
    /\ permits' = IF Limited THEN permits + 1 ELSE permits
    /\ UNCHANGED <<loop, listener, requests>>

\* The listener's socket is gone: the loop ends with it.
ListenerCloses ==
    /\ loop = "next" /\ listener
    /\ listener' = FALSE
    /\ loop' = "ended"
    /\ UNCHANGED <<conn, permits, requests>>

\* main's select! went on: the server future is dropped, and with it the loop, the
\* listener and the connection that waits for a permit.  The tasks of the
\* connections are not.
DropServer ==
    /\ loop' = "ended"
    /\ listener' = FALSE
    /\ conn' = [c \in Conns |-> IF conn[c] \in {"queued", "accepted"} THEN "closed" ELSE conn[c]]
    /\ UNCHANGED <<permits, requests>>

Loop == \E c \in Conns : AcceptNext(c) \/ AcceptError(c) \/ AcquirePermit(c)
Clients == \E c \in Conns : Arrives(c) \/ Headers(c) \/ RequestEnds(c) \/ ConnectionEnds(c)

-----------------------------------------------------------------------------
(* Properties                                                               *)

\* With an automatic limit the served connections and the reserve fit into the
\* limit on open files, whatever saturates or rounds, once there are more than
\* the one connection that is always admitted (config_auto.rs:43-47,
\* quiche_runner.rs:239-250).
FilesSuffice ==
    (max_connections_from_str(cli.max_connections) = 0 /\ Cardinality(Served) > 1) =>
        FD_PER_SESSION * Cardinality(Served) + FdReserve(nofile_soft) <= nofile_soft

\* "Max concurrent connections" (README.md:43): every permit is either free or
\* held by the task of a served connection.  So never more than max_connections
\* are served, and no permit leaks on a way out of the event loop, so that the
\* limit does not shrink either (quiche_runner.rs:239-295).
PermitsConserved ==
    loop # "off" => /\ permits \in 0..max_connections
                    /\ permits + Cardinality(Served) = max_connections

\* As long as the process lives and permits become free again and again, every
\* connection that waits in the listener is taken out of it, whatever errors it
\* reports meanwhile (quiche_runner.rs:229-246).
AcceptGoesOn ==
    []<>(permits > 0) =>
        \A c \in Conns : conn[c] = "queued" ~> (conn[c] # "queued" \/ main = "exited")
=============================================================================
