-------------------------- MODULE MCAgentProcess --------------------------
(* A small instance of AgentProcess; the constants are given in the .cfg. *)
EXTENDS AgentProcess

\* A minimal file, and the files that differ from it in one section.
Minimal ==
  [source |-> "", path |-> "", server |-> "http", batch |-> 0, flush |-> 0,
   telemetry |-> FALSE, exporter |-> "", tls |-> FALSE, min |-> "", max |-> "",
   auth |-> "", user |-> <<>>, password |-> <<>>, headers |-> {},
   encryption |-> FALSE, cipher |-> "", given |-> {}]

MCTexts ==
  DefaultTexts \cup SourceTypes \cup TLSVersions
  \cup {"File", "Container", "windows", "asl", "syslog", "/app.log", PrefixedPath,
        "https", "grpc", "console", "ssl3", "chacha20poly1305", "aes-gcm",
        "basic", "token", "oauth2", "header", "bearer", "u", "p", ":", "X-Key: k"}

Names == {"namespace", "pod_name", "container_name"}

Sources ==
  {[Minimal EXCEPT !.source = s, !.path = p] :
     s \in SourceTypes \cup {"", "File", "windows", "asl", "syslog"},
     p \in {"", "/app.log", PrefixedPath}}
  \cup
  {[Minimal EXCEPT !.source = s, !.given = g] :
     s \in {"container", "Container", "pod"}, g \in {{}, {"namespace"}, Names, {"pod_selector"}}}

File == [Minimal EXCEPT !.source = "file"]

Telemetries ==
  {[File EXCEPT !.telemetry = TRUE, !.exporter = x] : x \in {"", "grpc", "none", "console"}}

Secured ==
  {[File EXCEPT !.server = s, !.tls = TRUE, !.min = m, !.max = x, !.batch = b, !.given = g] :
     s \in {"http", "https", ""}, m \in {"", "ssl3"}, x \in {"", "tls13"}, b \in {0, -1},
     g \in {{}, {"cert_file"}, {"cert_file", "key_file"}, {"ca_file"}}}

Encrypted ==
  {[File EXCEPT !.encryption = e, !.cipher = x, !.batch = b, !.given = g] :
     e \in BOOLEAN, x \in {"", "chacha20poly1305", "aes-gcm"}, b \in {2, -1},
     g \in {{}, {"encryption.key_file"}, {"key_env", "key_id"}}}

Authenticated ==
  {[File EXCEPT !.auth = "basic", !.user = u, !.password = <<"p", ":">>] :
     u \in {<<>>, <<"u">>, <<"u", ":">>}}
  \cup {[File EXCEPT !.auth = "token", !.given = g] : g \in {{}, {"token_file"}}}
  \cup {[File EXCEPT !.auth = "oauth2", !.given = g] :
          g \in {{"client_id"}, {"client_id", "client_secret", "token_url"}}}
  \cup {[File EXCEPT !.auth = a, !.headers = {"X-Key: k"}] : a \in {"none", "header", "bearer"}}

Machine(os_, files, clients_) == {[os |-> os_, file |-> f, clients |-> clients_] : f \in files}

MCMachines ==
  UNION {Machine(o, Sources, {}) : o \in OSes}
  \cup Machine("linux", Telemetries \cup Secured \cup Encrypted, {})
  \cup Machine("linux", Authenticated, Probes)
=============================================================================
