---------------------------- MODULE AgentProcess ----------------------------
(***************************************************************************)
(* The life of an agent process, from its configuration file to its exit:  *)
(* the main goroutines of cmd/agent.go ("agent") and cmd/agent/main.go     *)
(* ("cmd") with the health server, the construction of the reader and of   *)
(* the sender, the telemetry and the signals.  The reader, the sender and  *)
(* the pipeline, which the module Agents has in full, are only made,       *)
(* started and stopped here; a line is taken, and it may be posted.        *)
(***************************************************************************)
EXTENDS HealthServer

CONSTANTS
  Machines,   \* where it may run: os, the configuration file, who probes it
  MaxLines    \* bound on the lines that are taken

ASSUME MachinesAssumption ==
  \A m \in Machines : m.os \in OSes /\ m.file \in ConfigRecord /\ m.clients \subseteq Probes
ASSUME MaxLinesAssumption == MaxLines \in Nat

VARIABLES
  program, os,
  clients,    \* those who probe this agent
  cfg,        \* the configuration: as in the file, then as loaded
  pc,         \* what main does next, or how the process ended
  cause,      \* of a fatal error: load, configuration or environment
  manager,    \* there is a telemetry manager
  tracer,     \* its tracer: nil, noop or real
  made, live, \* the trace providers made, and those not shut down
  spans,      \* what became of one span of each sort
  senderAuth, \* the authentication provider of the sender
  reader,     \* none, made or started, and its kind
  kind,
  pipeline,   \* none, running or done
  taken,      \* the lines the pipeline has taken
  notified, sigCh, cancelled,
  expired     \* the 30 seconds of the shutdown are over

tel == <<manager, tracer, made, live, spans>>
parts == <<senderAuth, reader, kind, pipeline, taken>>
sig == <<notified, sigCh, cancelled, expired>>
vars == <<program, os, clients, cfg, pc, cause, tel, parts, sig, health>>

Ends == {"fatal", "panicked", "killed", "exited"}
Alive == pc \notin Ends
Stopping == {"stopHealth", "stopSender", "stopReader", "join", "flush", "cleanup"}
Agent == program = "agent"
Spans == {"init", "line", "post"}

Init ==
  /\ program \in {"agent", "cmd"}
  /\ \E m \in Machines : os = m.os /\ cfg = m.file /\ clients = m.clients
  /\ pc = "load"
  /\ cause = ""
  /\ manager = FALSE /\ tracer = "nil" /\ made = {} /\ live = {}
  /\ spans = [s \in Spans |-> "none"]
  /\ senderAuth = [type |-> "none"] /\ reader = "none" /\ kind = "" /\ pipeline = "none"
  /\ taken = 0
  /\ notified = FALSE /\ sigCh = FALSE /\ cancelled = FALSE /\ expired = FALSE
  /\ HealthInit

-----------------------------------------------------------------------------
\* The steps of main in their order: what follows each.
AgentAfter ==
  [load |-> "telemetry", telemetry |-> "health", health |-> "reader",
   reader |-> "sender", sender |-> "notify", notify |-> "start",
   start |-> "markReady", markReady |-> "serving", serving |-> "markUnready",
   markUnready |-> "stopHealth", stopHealth |-> "stopSender",
   stopSender |-> "stopReader", stopReader |-> "join", join |-> "flush",
   flush |-> "cleanup", cleanup |-> "exited"]

CmdAfter ==
  [load |-> "telemetry", telemetry |-> "health", health |-> "reader",
   reader |-> "start", start |-> "sender", sender |-> "notify", notify |-> "serving",
   serving |-> "stopReader", stopReader |-> "stopSender", stopSender |-> "stopHealth",
   stopHealth |-> "join", join |-> "cleanup", cleanup |-> "exited"]

\* Mutants: cmd/agent.go reports ready before it starts the reader; it asks
\* for the signals last.
MMainEarly(at) ==
  /\ pc = at
  /\ pc' = IF Agent THEN [AgentAfter EXCEPT !.notify = "markReady", !.markReady = "start",
                                           !.start = "serving"][at]
                     ELSE CmdAfter[at]
  /\ UNCHANGED <<program, os, clients>>

MMainLate(at) ==
  /\ pc = at
  /\ pc' = IF Agent THEN [AgentAfter EXCEPT !.sender = "start", !.markReady = "notify",
                                           !.notify = "serving"][at]
                     ELSE CmdAfter[at]
  /\ UNCHANGED <<program, os, clients>>

Main(at) ==
  /\ pc = at
  /\ pc' = IF Agent THEN AgentAfter[at] ELSE CmdAfter[at]
  /\ UNCHANGED <<program, os, clients>>

\* logger.Fatal, on an error for which there is the given cause.
Fatal(at, why) ==
  /\ pc = at
  /\ pc' = "fatal"
  /\ cause' = why
  /\ UNCHANGED <<program, os, clients, cfg, tel, parts, sig, health>>

-----------------------------------------------------------------------------
\* LoadConfig.
Load ==
  \E d \in LoadConfig(cfg, os) :
    /\ Main("load")
    /\ cfg' = d
    /\ UNCHANGED <<cause, tel, parts, sig, health>>

LoadFails ==
  \/ Fatal("load", "environment")
  \/ LoadConfig(cfg, os) = {} /\ Fatal("load", "load")

\* The cause of an error in a constructor with these outcomes.
Blame(outcomes) ==
  IF \A x, y \in outcomes : x = y THEN "configuration" ELSE "environment"

\* The providers of the telemetry.  Setup exports over HTTP whatever is not
\* "grpc"; the manager makes no provider for "none", and fails for what it
\* does not know.
Setup == {{"setup"}, {}}
ManagerStart(c) ==
  CASE c.exporter \in {"grpc", "http"} -> {"real", "nil"}
    [] c.exporter = "none" -> {"noop"}
    [] OTHER -> {"nil"}

NoTelemetry ==
  /\ ~cfg.telemetry
  /\ Main("telemetry")
  /\ UNCHANGED <<cfg, cause, tel, parts, sig, health>>

\* cmd/agent.go keeps a manager whatever fails; setupTelemetry of
\* cmd/agent/main.go gives up when Setup fails.
StartTelemetry ==
  /\ cfg.telemetry
  /\ Main("telemetry")
  /\ \E s \in Setup :
       /\ manager' = (Agent \/ s # {})
       /\ tracer' \in IF manager' THEN ManagerStart(cfg) ELSE {"nil"}
       /\ made' = s \cup (IF tracer' = "real" THEN {"manager"} ELSE {})
  /\ live' = made'
  /\ UNCHANGED <<cfg, cause, spans, parts, sig, health>>

\* The provider behind otel.Tracer: the last one that was made.
Global ==
  CASE "manager" \in made -> "manager"
    [] "setup" \in made -> "setup"
    [] OTHER -> "none"

\* The health server; cmd/agent.go then begins the span of the reader's
\* initialization, with a tracer of the global provider.
StartHealth ==
  \E p \in NewHealthServer(cfg) \ {Failed} :
    /\ Main("health")
    /\ StartServer(p, cfg)
    /\ spans' = [spans EXCEPT !["init"] = IF Agent /\ manager /\ Global # "none"
                                          THEN "open" ELSE "none"]
    /\ UNCHANGED <<cfg, cause, manager, tracer, made, live, parts, sig>>

HealthFails ==
  Failed \in NewHealthServer(cfg) /\ Fatal("health", Blame(NewHealthServer(cfg)))

-----------------------------------------------------------------------------
\* The reader: cmd/agent.go parses the type of the source, cmd/agent/main.go
\* takes it as it is.  Opening the file, or starting the command, may fail.
SourceType == IF Agent THEN ParseSourceType(cfg.source) ELSE cfg.source
Readers == NewReader(SourceType, cfg, os)

MakeReader ==
  /\ Main("reader")
  /\ kind' \in Readers \ {"error"}
  /\ reader' = "made"
  /\ UNCHANGED <<cfg, cause, tel, senderAuth, pipeline, taken, sig, health>>

ReaderFails == "error" \in Readers /\ Fatal("reader", Blame(Readers))

\* cmd/agent.go starts the sender and the pipeline right after the reader.
StartReader ==
  /\ Main("start")
  /\ reader' = "started"
  /\ pipeline' = IF Agent THEN "running" ELSE pipeline
  /\ UNCHANGED <<cfg, cause, tel, senderAuth, kind, taken, sig, health>>

StartFails == kind \in {"file", "macos"} /\ Fatal("start", "environment")

\* The sender.  In cmd/agent/main.go it is started at once, and the pipeline
\* after it.
MakeSender ==
  /\ Main("sender")
  /\ ~SenderPanics(cfg)
  /\ senderAuth' \in NewSender(cfg) \ {Failed}
  /\ pipeline' = IF Agent THEN pipeline ELSE "running"
  /\ UNCHANGED <<cfg, cause, tel, reader, kind, taken, sig, health>>

SenderFails ==
  /\ ~SenderPanics(cfg)
  /\ Failed \in NewSender(cfg)
  /\ Fatal("sender", Blame(NewSender(cfg)))

SenderPanic ==
  /\ SenderPanics(cfg)
  /\ pc = "sender"
  /\ pc' = "panicked"
  /\ UNCHANGED <<program, os, clients, cfg, cause, tel, parts, sig, health>>

-----------------------------------------------------------------------------
\* Signals: the default is to die; signal.Notify puts them into a channel of
\* one place, and drops what does not fit.  The one that main has received is
\* the last that has an effect.
Signal ==
  /\ ~cancelled
  /\ IF notified THEN ~sigCh /\ sigCh' = TRUE /\ pc' = pc
                 ELSE sigCh' = FALSE /\ pc' = "killed"
  /\ UNCHANGED <<program, os, clients, cfg, cause, tel, parts, notified, cancelled,
                 expired, health>>

Notify ==
  /\ Main("notify")
  /\ notified' = TRUE
  /\ UNCHANGED <<cfg, cause, tel, parts, sigCh, cancelled, expired, health>>

MarkReady ==
  /\ Main("markReady")
  /\ SetReady(TRUE)
  /\ UNCHANGED <<cfg, cause, tel, parts, sig>>

GotSignal ==
  /\ Main("serving")
  /\ sigCh
  /\ sigCh' = FALSE
  /\ cancelled' = TRUE
  /\ UNCHANGED <<cfg, cause, tel, parts, notified, expired, health>>

MarkUnready ==
  /\ Main("markUnready")
  /\ SetReady(FALSE)
  /\ UNCHANGED <<cfg, cause, tel, parts, sig>>

StopHealth ==
  /\ pc = "stopHealth"
  /\ \/ Shutdown /\ (IF stopped' = "no" THEN UNCHANGED <<program, os, clients, pc>> ELSE Main(pc))
     \/ (Drained \/ DrainTimeout) /\ Main(pc)
  /\ UNCHANGED <<cfg, cause, tel, parts, sig>>

StopSender == Main("stopSender") /\ UNCHANGED <<cfg, cause, tel, parts, sig, health>>
StopReader == Main("stopReader") /\ UNCHANGED <<cfg, cause, tel, parts, sig, health>>

\* Only cmd/agent.go gives up waiting for the pipeline, after 30 seconds.
Join ==
  /\ Main("join")
  /\ pipeline = "done"
  /\ UNCHANGED <<cfg, cause, tel, parts, sig, health>>

JoinTimeout ==
  /\ Main("join")
  /\ expired
  /\ UNCHANGED <<cfg, cause, tel, parts, sig, health>>

Expire ==
  /\ Agent
  /\ pc \in Stopping
  /\ expired' = TRUE
  /\ UNCHANGED <<program, os, clients, cfg, pc, cause, tel, parts, notified, sigCh,
                 cancelled, health>>

-----------------------------------------------------------------------------
\* The provider a span belongs to: the sender's tracer is the manager's in
\* cmd/agent.go and one of the global provider in cmd/agent/main.go.
Home(s) ==
  CASE s = "init" \/ (s = "post" /\ ~Agent /\ manager) -> Global
    [] s \in {"line", "post"} /\ Agent /\ tracer = "real" -> "manager"
    [] OTHER -> "none"

\* What becomes of a span that ends now: its provider batches it, or has been
\* shut down.
Ended(s) ==
  CASE Home(s) = "none" -> "none"
    [] Home(s) \in live -> "batched"
    [] OTHER -> "lost"

\* Mutant: the manager is not shut down, as in cmd/agent/main.go.
MFlush == Main("flush") /\ UNCHANGED <<cfg, cause, tel, parts, sig, health>>

\* cmd/agent.go shuts its manager down with the context of the 30 seconds,
\* which may be over.  A provider that is shut down in time hands its spans to
\* the exporter ("exported"); what the collector does with them is left out.
Flush ==
  /\ Main("flush")
  /\ \E inTime \in {TRUE, ~expired} :
       spans' = [s \in Spans |-> IF spans[s] = "batched" /\ Home(s) = "manager" /\ inTime
                                 THEN "exported" ELSE spans[s]]
  /\ live' = live \ {"manager"}
  /\ UNCHANGED <<cfg, cause, manager, tracer, made, parts, sig, health>>

\* The cleanup of Setup has 5 seconds of its own.  The deferred end of the
\* span of the initialization comes last.
Cleanup ==
  /\ Main("cleanup")
  /\ spans' = [s \in Spans |-> CASE spans[s] = "batched" /\ Home(s) = "setup" -> "exported"
                                 [] spans[s] = "open" -> "lost"
                                 [] OTHER -> spans[s]]
  /\ live' = live \ {"setup"}
  /\ UNCHANGED <<cfg, cause, manager, tracer, made, parts, sig, health>>

\* The batch processors export from time to time.
Export ==
  /\ \E s \in Spans :
       /\ spans[s] = "batched"
       /\ Home(s) \in live
       /\ spans' = [spans EXCEPT ![s] = "exported"]
  /\ UNCHANGED <<program, os, clients, cfg, pc, cause, manager, tracer, made, live, parts,
                 sig, health>>

\* The pipeline takes a line, with a span of the manager in cmd/agent.go; a
\* nil tracer panics.
TakeLine ==
  /\ pipeline = "running"
  /\ taken < MaxLines
  /\ IF Agent /\ manager /\ tracer = "nil"
       THEN pc' = "panicked" /\ UNCHANGED <<taken, spans>>
       ELSE /\ taken' = taken + 1
            /\ spans' = [spans EXCEPT !["line"] = IF @ = "none" THEN Ended("line") ELSE @]
            /\ UNCHANGED pc
  /\ UNCHANGED <<program, os, clients, cfg, cause, manager, tracer, made, live, senderAuth, reader,
                 kind, pipeline, sig, health>>

PipelineEnds ==
  /\ pipeline = "running"
  /\ cancelled
  /\ pipeline' = "done"
  /\ UNCHANGED <<program, os, clients, cfg, pc, cause, tel, senderAuth, reader, kind,
                 taken, sig, health>>

\* The sender posts a batch, in a goroutine nobody waits for.
Post ==
  /\ taken > 0
  /\ spans["post"] = "none"
  /\ spans' = [spans EXCEPT !["post"] = Ended("post")]
  /\ UNCHANGED <<program, os, clients, cfg, pc, cause, manager, tracer, made, live, parts,
                 sig, health>>

\* Before the parts are started, while they are stopped, or between.
Phase ==
  CASE pipeline = "none" -> "before"
    [] pc \in Stopping -> "after"
    [] OTHER -> "between"

\* The health server's goroutines.  A probe carries no credentials or those
\* the sender uses.
Serve ==
  /\ \/ Listen
     \/ ListenFails
     \/ \E p \in Probes :
          \/ \E path \in Paths, creds \in {NoCredentials, AddAuthentication(senderAuth)} :
               p \in clients /\ Request(p, path, creds, Phase)
          \/ WithAuth(p)
          \/ Handle(p)
          \/ Answer(p, Phase)
  /\ UNCHANGED <<program, os, clients, cfg, pc, cause, tel, parts, sig>>

-----------------------------------------------------------------------------
\* Main is scheduled and its time-outs fire; whether StopReader returns is the
\* reader's affair.
MainStep ==
  \/ Load \/ LoadFails \/ NoTelemetry \/ StartTelemetry \/ StartHealth \/ HealthFails
  \/ MakeReader \/ ReaderFails \/ StartReader \/ StartFails
  \/ MakeSender \/ SenderFails \/ SenderPanic
  \/ Notify \/ MarkReady \/ GotSignal \/ MarkUnready \/ StopHealth \/ StopSender
  \/ Join \/ JoinTimeout \/ Flush \/ Cleanup

Next ==
  /\ Alive
  /\ \/ MainStep \/ StopReader \/ Signal \/ Expire
     \/ Export \/ TakeLine \/ PipelineEnds \/ Post \/ Serve

Spec == Init /\ [][Next]_vars
FairSpec == Spec /\ WF_vars(Alive /\ MainStep)

-----------------------------------------------------------------------------
TypeOK ==
  /\ pc \in DOMAIN AgentAfter \cup Ends
  /\ taken \in 0..MaxLines
  /\ live \subseteq made /\ made \subseteq {"setup", "manager"}
  /\ spans \in [Spans -> {"none", "open", "batched", "exported", "lost"}]
  /\ server \in {"none", "made", "listening", "failed", "draining", "closed"}
  /\ stopped \in {"no", "yes", "late"}
  /\ \A p \in Probes : probe[p].code \in {0, 200, 401, 500, 503}

\* A configuration that has been loaded is complete: loading it again, which
\* applies the defaults of LoadConfig and its validation a second time,
\* changes nothing.
LoadedIsFixed == pc \notin {"load", "fatal", "killed"} => LoadConfig(cfg, os) = {cfg}

\* What a loaded configuration must still satisfy for the program to start,
\* because LoadConfig lets it pass: a source type with a reader, spelled as in
\* the code or, for cmd/agent.go, in a way ParseSourceType knows (which then
\* gets no default path and no validation), known names for the
\* authentication, the versions and the cipher, and no negative batch size.
Startable ==
  /\ \/ cfg.source \in {"file", "container", "windows_event", "macos_asl"}
     \/ /\ Agent
        /\ \/ cfg.source = "File" /\ cfg.path # ""
           \/ cfg.source = "Container"
              /\ {"namespace", "pod_name", "container_name"} \subseteq cfg.given
           \/ cfg.source \in {"windows", "event"} /\ os = "windows"
           \/ cfg.source \in {"macos", "asl"} /\ os = "darwin"
  /\ cfg.auth \in {"none", "basic", "token", "oauth2", "header"}
  /\ cfg.tls => {cfg.min, cfg.max} \subseteq TLSVersions \cup {""}
  /\ cfg.encryption => cfg.cipher \in {"aes", "chacha20poly1305"}
  /\ Secure(cfg) => cfg.batch >= 0

\* The start-up fails for a reason: an agent that has loaded its configuration
\* serves only if it is startable, and ends with a fatal error only if it is
\* not or something in the environment failed (the constructors of the health
\* server, of the reader and of the sender check nothing that LoadConfig has
\* not settled already).
StartsWhenStartable ==
  /\ pc \in {"serving", "exited"} => Startable
  /\ cause = "configuration" => ~Startable

\* The process panics only where a secure sender is made with a negative batch
\* size, or in cmd/agent.go when a line arrives and the telemetry manager
\* could not be started: an exporter that is not grpc, http or none is enough.
PanicsOnlyOn ==
  pc = "panicked" =>
    \/ Secure(cfg) /\ cfg.batch < 0
    \/ Agent /\ cfg.telemetry /\ cfg.exporter # "none" /\ "manager" \notin made

\* The answers of /ready are true: 200 only from cmd/agent.go, only if the
\* pipeline was started when the answer was sent, and never to a request that
\* arrived when main had begun to stop its parts.
ReadyIsTrue ==
  \A p \in Probes :
    probe[p].at = "answered" /\ probe[p].path = "/ready" /\ probe[p].code = 200 =>
      /\ Agent
      /\ probe[p].since # "after"
      /\ probe[p].until # "before"

\* After Stop has returned without an error nothing is served any more: no
\* request is in flight, and the goroutine of Start, however late it comes,
\* does not listen.
StoppedServesNothing == stopped = "yes" => server # "listening" /\ InFlight = {}

\* The health server accepts the agent's own credentials, those the sender
\* sends with its batches, unless the provider has no server side (OAuth2),
\* the user name holds a colon, the token file is blank or it was read twice
\* with different contents.
OwnCredentialsPass ==
  \A p \in Probes :
    probe[p].code \in {401, 500} /\ probe[p].creds = AddAuthentication(senderAuth)
        /\ senderAuth.type # "none" =>
      \/ auth.type = "oauth2"
      \/ auth.type = "basic" /\ \E i \in DOMAIN auth.user : auth.user[i] = ":"
      \/ auth.type = "token" /\ (auth.token = "" \/ auth # senderAuth)

\* A signal never drops a line cmd/agent.go has taken: the signals are asked
\* for before the reader is started.  (cmd/agent/main.go asks for them when
\* its pipeline runs already.)
KilledBeforeFirstLine == pc = "killed" /\ Agent => taken = 0 /\ reader # "started"

\* At a regular end no span waits for its export, but those of the manager of
\* cmd/agent/main.go, which is never shut down, and those of a shutdown of more
\* than 30 seconds; and a span is lost only if it ends after the shutdown: the
\* one of the initialization always, one of a late request.
EndExportsSpans ==
  pc = "exited" =>
    \A s \in Spans :
      /\ spans[s] = "batched" => (IF Agent THEN expired ELSE Home(s) = "manager")
      /\ spans[s] = "lost" => s = "init" \/ s = "post" \/ expired

\* A signal to an agent that serves closes its health server, whatever requests
\* are in flight and whether or not the reader stops; cmd/agent/main.go, which
\* stops its reader first, may be held there.
SignalClosesHealth ==
  (pc = "serving" /\ sigCh) ~>
     (server = "closed" \/ pc \in Ends \/ (~Agent /\ pc = "stopReader"))
=============================================================================
