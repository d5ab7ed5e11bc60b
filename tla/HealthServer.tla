---------------------------- MODULE HealthServer ----------------------------
(***************************************************************************)
(* pkg/http/health.go: the server of the probes.  Its goroutine listens    *)
(* (net/http, external) some time after Start has returned, one goroutine  *)
(* per request authenticates it and looks at the ready flag, and Stop      *)
(* waits for the requests in flight, at most 5 seconds.                    *)
(***************************************************************************)
EXTENDS Security

CONSTANTS Probes   \* the clients: each has one request at a time

VARIABLES
  server,      \* none, made, listening, failed, draining or closed
  auth,        \* the authentication provider
  canListen,   \* FALSE: TLS is on and there is no certificate
  ready,       \* the flag of SetReady and IsReady
  stopped,     \* Stop has returned: "no", "yes" or "late" (the 5 seconds passed)
  probe        \* the request of each client

health == <<server, auth, canListen, ready, stopped, probe>>

Paths == {"/health", "/ready"}
NoProbe == [at |-> "idle", path |-> "/health", creds |-> NoCredentials, code |-> 0,
            since |-> "", until |-> ""]

HealthInit ==
  /\ server = "none"
  /\ auth = [type |-> "none"]
  /\ canListen = TRUE
  /\ ready = FALSE
  /\ stopped = "no"
  /\ probe = [p \in Probes |-> NoProbe]

\* NewSecureHealthServer where TLS or authentication is on, NewHealthServer
\* otherwise: the authentication provider, or an error.
NewHealthServer(c) == IF c.tls \/ c.auth # "none" THEN NewAuthProvider(c) ELSE {[type |-> "none"]}

\* Start: it makes the server and leaves listening to a goroutine.
StartServer(p, c) ==
  /\ server' = "made"
  /\ auth' = p
  /\ canListen' = (~c.tls \/ {"cert_file", "key_file"} \subseteq c.given)
  /\ UNCHANGED <<ready, stopped, probe>>

\* The goroutine: ListenAndServe or ListenAndServeTLS.  An error is logged.
Listen ==
  /\ server = "made"
  /\ canListen
  /\ server' = "listening"
  /\ UNCHANGED <<auth, canListen, ready, stopped, probe>>

ListenFails ==
  /\ server = "made"
  /\ server' = "failed"
  /\ UNCHANGED <<auth, canListen, ready, stopped, probe>>

SetReady(b) ==
  /\ ready' = b
  /\ UNCHANGED <<server, auth, canListen, stopped, probe>>

-----------------------------------------------------------------------------
\* Stop.  Mutant: a server that does not listen yet is left alone.
MShutdown ==
  /\ server \in {"made", "listening", "failed"}
  /\ server' = IF server = "listening" THEN "draining" ELSE server
  /\ stopped' = IF server = "listening" THEN "no" ELSE "yes"
  /\ UNCHANGED <<auth, canListen, ready, probe>>

\* Shutdown closes the listener; a server that starts to listen later returns
\* ErrServerClosed at once.
Shutdown ==
  /\ server \in {"made", "listening", "failed"}
  /\ server' = IF server = "listening" THEN "draining" ELSE "closed"
  /\ stopped' = IF server = "listening" THEN "no" ELSE "yes"
  /\ UNCHANGED <<auth, canListen, ready, probe>>

InFlight == {p \in Probes : probe[p].at \in {"arrived", "admitted", "decided"}}

Drained ==
  /\ server = "draining"
  /\ InFlight = {}
  /\ server' = "closed"
  /\ stopped' = "yes"
  /\ UNCHANGED <<auth, canListen, ready, probe>>

\* Mutant: the requests in flight are waited for without a limit.
MDrainTimeout == FALSE /\ UNCHANGED health

DrainTimeout ==
  /\ server = "draining"
  /\ InFlight # {}
  /\ server' = "closed"
  /\ stopped' = "late"
  /\ UNCHANGED <<auth, canListen, ready, probe>>

-----------------------------------------------------------------------------
\* A request arrives while the main goroutine is at `now', is authenticated
\* (withAuth), handled, and answered.
Request(p, path, creds, now) ==
  /\ server = "listening"
  /\ probe[p].at \in {"idle", "answered"}
  /\ probe' = [probe EXCEPT ![p] = [NoProbe EXCEPT !.at = "arrived", !.path = path,
                                                   !.creds = creds, !.since = now]]
  /\ UNCHANGED <<server, auth, canListen, ready, stopped>>

WithAuth(p) ==
  LET answer == IF auth.type = "none" THEN "yes" ELSE Authenticate(auth, probe[p].creds)
  IN /\ probe[p].at = "arrived"
     /\ probe' = [probe EXCEPT ![p] =
                    [@ EXCEPT !.at = IF answer = "yes" THEN "admitted" ELSE "decided",
                              !.code = CASE answer = "yes" -> 0
                                         [] answer = "no" -> 401
                                         [] answer = "error" -> 500]]
     /\ UNCHANGED <<server, auth, canListen, ready, stopped>>

\* healthHandler (and metricsHandler, which answers alike) and readyHandler.
Handle(p) ==
  /\ probe[p].at = "admitted"
  /\ probe' = [probe EXCEPT ![p] =
                 [@ EXCEPT !.at = "decided",
                           !.code = IF probe[p].path = "/ready" /\ ~ready THEN 503 ELSE 200]]
  /\ UNCHANGED <<server, auth, canListen, ready, stopped>>

Answer(p, now) ==
  /\ probe[p].at = "decided"
  /\ probe' = [probe EXCEPT ![p] = [@ EXCEPT !.at = "answered", !.until = now]]
  /\ UNCHANGED <<server, auth, canListen, ready, stopped>>
=============================================================================
