--------------------------- MODULE HealthProofs ---------------------------
(***************************************************************************)
(* The properties of AgentProcess that are about its health server, for    *)
(* every configuration, any number of probes and any token file.           *)
(***************************************************************************)
EXTENDS AgentProcessProofs

\* The user, a colon and the password, split at the first colon, are the user
\* and the password if the user has no colon.
LEMMA SplitOwn ==
  ASSUME NEW u \in Seq(Texts), NEW w \in Seq(Texts), \A i \in DOMAIN u : u[i] # ":",
         NEW p, p.user = u, p.password = w
  PROVE  BasicMatches(p, u \o <<":">> \o w)
<1> DEFINE n == Len(u)
           s == u \o <<":">> \o w
<1>1. n \in Nat /\ DOMAIN u = 1..n /\ DOMAIN w = 1..Len(w) /\ Len(w) \in Nat
  OBVIOUS
<1>2. s \in Seq(Texts \cup {":"}) /\ Len(s) = n + 1 + Len(w)
  OBVIOUS
<1>3. s[n + 1] = ":" /\ \A j \in 1..n : s[j] = u[j]
  OBVIOUS
<1>4. \A j \in 1..Len(w) : s[n + 1 + j] = w[j]
  OBVIOUS
<1> HIDE DEF n, s
<1>5. SubSeq(s, 1, n) = u
  BY <1>1, <1>2, <1>3 DEF n
<1>6. SubSeq(s, n + 2, Len(s)) = w
  BY <1>1, <1>2, <1>4
<1>7. n + 1 \in DOMAIN s /\ (n + 1) - 1 = n /\ (n + 1) + 1 = n + 2
  BY <1>1, <1>2
<1>8. \A j \in 1..((n + 1) - 1) : s[j] # ":"
  BY <1>1, <1>3
<1>9. BasicMatches(p, s)
  BY <1>3, <1>5, <1>6, <1>7, <1>8, Zenon DEF BasicMatches
<1> QED
  BY <1>9 DEF s

\* The headers the providers add.
LEMMA BasicCredentials ==
  ASSUME NEW u, NEW w, NEW p, p = [type |-> "basic", user |-> u, password |-> w],
         NEW r, r = AddAuthentication(p)
  PROVE  r.scheme = "Basic" /\ r.rest = u \o <<":">> \o w
<1>1. p.type = "basic" /\ p.user = u /\ p.password = w
  OBVIOUS
<1>2. r = [NoCredentials EXCEPT !.scheme = "Basic", !.rest = u \o <<":">> \o w]
  BY <1>1, Zenon DEF AddAuthentication
<1> QED
  BY <1>2, Zenon DEF NoCredentials

\* A token that is not blank goes out as a bearer.
LEMMA TokenCredentials ==
  ASSUME NEW t, t # "", NEW p, p = [type |-> "token", token |-> t],
         NEW r, r = AddAuthentication(p)
  PROVE  r.scheme = "Bearer" /\ r.rest = <<t>>
<1>1. p.type = "token" /\ p.token = t
  BY Zenon
<1>2. r = [NoCredentials EXCEPT !.scheme = "Bearer", !.rest = <<t>>]
  BY <1>1, Zenon DEF AddAuthentication
<1> QED
  BY <1>2, Zenon DEF NoCredentials

\* Custom headers go out as they are.
LEMMA HeaderCredentials ==
  ASSUME NEW h, NEW p, p = [type |-> "header", headers |-> h],
         NEW r, r = AddAuthentication(p)
  PROVE  r.headers = h
<1>1. p.type = "header" /\ p.headers = h
  OBVIOUS
<1>2. r = [NoCredentials EXCEPT !.headers = h]
  BY <1>1, Zenon DEF AddAuthentication
<1> QED
  BY <1>2, Zenon DEF NoCredentials

\* What a health server with the provider a answers to the credentials of the
\* provider s, if both are made from one configuration: yes, but for the
\* reasons OwnCredentialsPass gives.
LEMMA OwnAccepted ==
  ASSUME NEW c \in ConfigRecord,
         NEW a \in NewAuthProvider(c) \ {Failed}, NEW s \in NewAuthProvider(c) \ {Failed},
         a.type # "none"
  PROVE  /\ a.type \in AuthTypes
         /\ \/ Authenticate(a, AddAuthentication(s)) = "yes"
            \/ a.type = "oauth2"
            \/ a.type = "basic" /\ \E i \in DOMAIN a.user : a.user[i] = ":"
            \/ a.type = "token" /\ (a.token = "" \/ a # s)
<1> DEFINE r == AddAuthentication(s)
<1>1. CASE c.auth = "basic"
  <2>1. PICK u \in Seq(Texts), w \in Seq(Texts) :
          a = [type |-> "basic", user |-> u, password |-> w] /\ a = s
    BY <1>1 DEF NewAuthProvider, ConfigRecord
  <2>2. a.type = "basic" /\ a.user = u /\ a.password = w
    BY <2>1
  <2>3. r.scheme = "Basic" /\ r.rest = u \o <<":">> \o w
    BY <2>1, BasicCredentials, Zenon
  <2>4. (\A i \in DOMAIN u : u[i] # ":") => BasicMatches(a, u \o <<":">> \o w)
    BY <2>2, SplitOwn, Zenon
  <2> QED
    BY <2>2, <2>3, <2>4, Zenon DEF Authenticate, AuthTypes
<1>2. CASE c.auth = "token"
  <2>1. PICK t \in Tokens : a = [type |-> "token", token |-> t]
    BY <1>2 DEF NewAuthProvider
  <2>2. a.type = "token" /\ a.token = t
    BY <2>1
  <2>3. CASE t # "" /\ a = s
    <3>1. r.scheme = "Bearer" /\ r.rest = <<t>>
      BY <2>1, <2>3, TokenCredentials, Zenon
    <3> QED
      BY <2>2, <3>1 DEF Authenticate, AuthTypes
  <2> QED
    BY <2>2, <2>3, Zenon DEF AuthTypes
<1>3. CASE c.auth = "header"
  <2>1. PICK h : a = [type |-> "header", headers |-> h] /\ a = s
    BY <1>3 DEF NewAuthProvider
  <2>2. a.type = "header" /\ a.headers = h
    BY <2>1
  <2>3. r.headers = h
    BY <2>1, HeaderCredentials, Zenon
  <2> QED
    BY <2>2, <2>3, Zenon DEF Authenticate, AuthTypes
<1>4. CASE c.auth = "oauth2"
  <2>1. a = [type |-> "oauth2"]
    BY <1>4 DEF NewAuthProvider
  <2> QED
    BY <2>1 DEF AuthTypes
<1>5. CASE c.auth \notin {"basic", "token", "header", "oauth2"}
  <2>1. a = [type |-> "none"]
    BY <1>5 DEF NewAuthProvider
  <2> QED
    BY <2>1
<1> QED
  BY <1>1, <1>2, <1>3, <1>4, <1>5, Zenon
-----------------------------------------------------------------------------
\* The two providers come from the configuration that was loaded.
ProvidersMade ==
  /\ auth = [type |-> "none"] \/ auth \in NewAuthProvider(cfg) \ {Failed}
  /\ senderAuth = [type |-> "none"] \/ senderAuth \in NewAuthProvider(cfg) \ {Failed}
  /\ pc \in BeforeHealth => auth = [type |-> "none"]
  /\ pc \in BeforeSender => senderAuth = [type |-> "none"]

\* ProvidersMade holds in every reachable state.
LEMMA ProvidersMadeInvariant == Spec => []ProvidersMade
<1>1. Init => ProvidersMade
  <2> SUFFICES ASSUME Init PROVE ProvidersMade
    OBVIOUS
  <2>1. auth = [type |-> "none"] /\ senderAuth = [type |-> "none"]
    BY Zenon DEF Init, HealthInit
  <2> QED
    BY <2>1 DEF ProvidersMade
<1>2. Control /\ ProvidersMade /\ [Next]_vars => ProvidersMade'
  <2> SUFFICES ASSUME Control, ProvidersMade, [Next]_vars PROVE ProvidersMade'
    OBVIOUS
  <2>1. Frame /\ Move
    BY NextFrame, NextMove, Zenon
  <2>2. program' = program
    BY <2>1 DEF Frame
  <2>3. CASE Load
    <3>1. pc = "load" /\ pc' = "telemetry" /\ UNCHANGED <<auth, senderAuth>>
      BY <2>3, Zenon DEF Load, Main, AgentAfter, CmdAfter, health, parts
    <3> QED
      BY <3>1, Zenon DEF ProvidersMade, BeforeHealth, BeforeReader, BeforeSender
  <2>4. CASE StartHealth
    <3>1. /\ pc = "health" /\ pc' = "reader" /\ UNCHANGED <<cfg, senderAuth>>
          /\ auth' \in NewHealthServer(cfg) \ {Failed}
      BY <2>4, Zenon DEF StartHealth, Main, AgentAfter, CmdAfter, StartServer, parts
    <3> QED
      BY <2>2, <3>1, Zenon DEF ProvidersMade, NewHealthServer, BeforeHealth, BeforeReader,
         BeforeSender
  <2>5. CASE MakeSender
    <3>1. /\ pc = "sender" /\ pc' \in {"notify", "serving"} /\ UNCHANGED <<cfg, auth>>
          /\ senderAuth' \in NewSender(cfg) \ {Failed}
      BY <2>5, Zenon DEF MakeSender, Main, AgentAfter, CmdAfter, health
    <3> QED
      BY <3>1, NewSenderOutcomes, Zenon DEF ProvidersMade, BeforeHealth, BeforeReader, BeforeSender
  <2>6. CASE ~Load /\ ~StartHealth /\ ~MakeSender
    <3>1. UNCHANGED <<cfg, auth, senderAuth>>
      BY <2>1, <2>6, Zenon DEF Frame
    <3>2. pc' \in BeforeHealth => pc \in BeforeHealth
      BY <2>1, <2>2, Zenon DEF Move, BeforeHealth, AgentWalk, CmdWalk, Control, Locations, Alive,
         Ends
    <3>3. pc' \in BeforeSender' => pc \in BeforeSender
      BY <2>1, <2>2, ZenonT(40) DEF Move, BeforeHealth, BeforeReader, BeforeSender, Agent,
                        AgentWalk, CmdWalk, Control, Locations, Alive, Ends
    <3> QED
      BY <3>1, <3>2, <3>3, Zenon DEF ProvidersMade, BeforeHealth
  <2> QED
    BY <2>3, <2>4, <2>5, <2>6, Zenon
<1> QED
  BY <1>1, <1>2, ControlInvariant, PTL DEF Spec
-----------------------------------------------------------------------------
\* The requests in flight, the credentials probes send, and the other values of
\* the fields of a request.
Waiting == {"arrived", "admitted", "decided"}

Sent == {NoCredentials, AddAuthentication(senderAuth)}
Times == {"", "before", "between", "after"}

States == {"idle", "answered"} \cup Waiting
Codes == {0, 200, 401, 500, 503}

\* The requests a client may have.
ProbeRecord ==
  [at : States, path : Paths, creds : Sent, code : Codes, since : Times, until : Times]

\* What is true of a request r.
RequestOK(r) ==
  /\ r.at \in Waiting =>
       server \in {"listening", "draining"} \/ (server = "closed" /\ stopped = "late")
  /\ r.code \in {401, 500} => auth.type # "none" /\ Authenticate(auth, r.creds) # "yes"
  /\ r.since = "after" => pc \in Stopping \cup Ends
  /\ r.path = "/ready" /\ r.code = 200 =>
       /\ r.at \in {"decided", "answered"}
       /\ Agent /\ pipeline # "none" /\ r.since # "after"
       /\ r.at = "answered" => r.until # "before"

\* The inductive invariant of the health server and its requests.
Served ==
  /\ server \in {"none", "made", "listening", "failed", "draining", "closed"}
  /\ stopped \in {"no", "yes", "late"}
  /\ stopped = "yes" => server = "closed"
  /\ pc \in BeforeHealth => server = "none"
  /\ server = "none" => probe = [p \in Probes |-> NoProbe]
  /\ probe \in [Probes -> ProbeRecord]
  /\ \A p \in Probes : RequestOK(probe[p])
  /\ stopped = "yes" => InFlight = {}
  /\ ready => Agent /\ pc \in {"serving", "markUnready"} \cup Ends

\* A client without a request is in order.
LEMMA NoProbeOK == NoProbe \in ProbeRecord /\ RequestOK(NoProbe)
  BY DEF NoProbe, ProbeRecord, RequestOK, Paths, Waiting, Sent, Times, States, Codes

\* Served holds at first.
LEMMA ServedInit == Init => Served
<1> SUFFICES ASSUME Init PROVE Served
  OBVIOUS
<1>1. server = "none" /\ ready = FALSE /\ stopped = "no" /\ probe = [p \in Probes |-> NoProbe]
  BY Zenon DEF Init, HealthInit
<1>2. InFlight = {}
  BY <1>1, Zenon DEF InFlight, NoProbe
<1> QED
  BY <1>1, <1>2, NoProbeOK, Zenon DEF Served

\* What no step changes of a request that has arrived.
Same(r, s) == s.path = r.path /\ s.creds = r.creds /\ s.since = r.since

\* A step of a request from r to s: it arrives, is judged, handled or answered.
Advance(r, s) ==
  \/ s.at = "arrived" /\ s.code = 0 /\ s.since = Phase /\ server = "listening"
  \/ /\ r.at = "arrived" /\ Same(r, s)
     /\ \/ s.at = "admitted" /\ s.code = 0
        \/ /\ s.at = "decided" /\ s.code \in {401, 500}
           /\ auth.type # "none" /\ Authenticate(auth, r.creds) # "yes"
  \/ /\ r.at = "admitted" /\ Same(r, s) /\ s.at = "decided"
     /\ s.code = 503 \/ (s.code = 200 /\ (r.path = "/ready" => ready))
  \/ /\ r.at = "decided" /\ Same(r, s) /\ s.at = "answered"
     /\ s.code = r.code /\ s.until = Phase

\* Authenticate has one of three answers.
LEMMA AuthAnswers ==
  ASSUME NEW a, a.type \in AuthTypes \ {"none"}, NEW c
  PROVE  Authenticate(a, c) \in {"yes", "no", "error"}
  BY DEF Authenticate, AuthTypes

\* A provider that was made is of a known type.
LEMMA MadeTypes ==
  ASSUME NEW c, NEW a \in NewAuthProvider(c) \ {Failed}
  PROVE  a.type \in AuthTypes
  BY DEF NewAuthProvider, AuthTypes

\* The three values of Phase.
LEMMA PhaseType == Phase \in {"before", "between", "after"}
  BY Zenon DEF Phase

\* A step of the health server's goroutines is the end of its wait for the
\* listener or a step of one request.
LEMMA ServeSteps ==
  ASSUME ProvidersMade, probe \in [Probes -> ProbeRecord], Serve
  PROVE  /\ UNCHANGED <<auth, ready, stopped, program, pc, pipeline, senderAuth>>
         /\ \/ server = "made" /\ server' \in {"listening", "failed"} /\ probe' = probe
            \/ /\ server' = server
               /\ \E p \in Probes : \E s \in ProbeRecord :
                    probe' = [probe EXCEPT ![p] = s] /\ Advance(probe[p], s)
<1>1. UNCHANGED <<auth, ready, stopped, program, pc, pipeline, senderAuth>>
  BY Zenon DEF Serve, Listen, ListenFails, Request, WithAuth, Handle, Answer, parts
<1>2. CASE Listen \/ ListenFails
  BY <1>1, <1>2 DEF Listen, ListenFails
<1>3. ASSUME NEW p \in Probes, NEW path \in Paths,
             NEW creds \in {NoCredentials, AddAuthentication(senderAuth)},
             Request(p, path, creds, Phase)
      PROVE  server' = server /\ \E s \in ProbeRecord :
               probe' = [probe EXCEPT ![p] = s] /\ Advance(probe[p], s)
  <2> DEFINE s == [NoProbe EXCEPT !.at = "arrived", !.path = path, !.creds = creds,
                                  !.since = Phase]
  <2>1. s \in ProbeRecord
    BY PhaseType, ZenonT(40) DEF ProbeRecord, NoProbe, Waiting, Sent, Times, States, Codes
  <2>2. /\ s.at = "arrived" /\ s.path = path /\ s.code = 0 /\ s.since = Phase
        /\ s.until = "" /\ s.creds = creds
    BY DEF NoProbe
  <2>3. server' = server /\ server = "listening" /\ probe' = [probe EXCEPT ![p] = s]
    BY <1>3 DEF Request
  <2> HIDE DEF s
  <2> QED
    BY <2>1, <2>2, <2>3, ZenonT(40) DEF Advance
<1>4. ASSUME NEW p \in Probes, WithAuth(p)
      PROVE  server' = server /\ \E s \in ProbeRecord :
               probe' = [probe EXCEPT ![p] = s] /\ Advance(probe[p], s)
  <2> DEFINE answer == IF auth.type = "none" THEN "yes" ELSE Authenticate(auth, probe[p].creds)
             code == CASE answer = "yes" -> 0 [] answer = "no" -> 401 [] answer = "error" -> 500
             at == IF answer = "yes" THEN "admitted" ELSE "decided"
             s == [probe[p] EXCEPT !.at = at, !.code = code]
  <2>1. answer \in {"yes", "no", "error"}
    <3>1. auth.type \in AuthTypes
      BY MadeTypes DEF ProvidersMade, AuthTypes
    <3> QED
      BY <3>1, AuthAnswers
  <2>2. /\ server' = server /\ probe[p].at = "arrived"
        /\ probe' = [probe EXCEPT ![p] = s]
    BY <1>4 DEF WithAuth
  <2>3. answer # "yes" => auth.type # "none" /\ Authenticate(auth, probe[p].creds) # "yes"
    OBVIOUS
  <2> HIDE DEF answer
  <2>4. \/ at = "admitted" /\ code = 0
        \/ at = "decided" /\ code \in {401, 500} /\ answer # "yes"
    BY <2>1
  <2> HIDE DEF at, code
  <2>5. probe[p] \in ProbeRecord
    OBVIOUS
  <2>6. at \in States /\ code \in Codes
    BY <2>4 DEF States, Codes, Waiting
  <2>7. s = [probe[p] EXCEPT !.at = at, !.code = code]
    OBVIOUS
  <2> HIDE DEF s
  <2>8. s \in ProbeRecord /\ s.at = at /\ s.code = code /\ Same(probe[p], s)
    BY <2>5, <2>6, <2>7, Zenon DEF ProbeRecord, Same
  <2>9. Advance(probe[p], s)
    BY <2>2, <2>3, <2>4, <2>8 DEF Advance
  <2> QED
    BY <2>2, <2>8, <2>9, Zenon
<1>5. ASSUME NEW p \in Probes, Handle(p)
      PROVE  server' = server /\ \E s \in ProbeRecord :
               probe' = [probe EXCEPT ![p] = s] /\ Advance(probe[p], s)
  <2> DEFINE code == IF probe[p].path = "/ready" /\ ~ready THEN 503 ELSE 200
             s == [probe[p] EXCEPT !.at = "decided", !.code = code]
  <2>1. /\ server' = server /\ probe[p].at = "admitted"
        /\ probe' = [probe EXCEPT ![p] = s]
    BY <1>5 DEF Handle
  <2>2. code \in {200, 503} /\ (code = 200 /\ probe[p].path = "/ready" => ready)
    OBVIOUS
  <2> HIDE DEF code
  <2>3. probe[p] \in ProbeRecord
    OBVIOUS
  <2>4. "decided" \in States /\ code \in Codes
    BY <2>2 DEF States, Codes, Waiting
  <2>5. s = [probe[p] EXCEPT !.at = "decided", !.code = code]
    OBVIOUS
  <2> HIDE DEF s
  <2>6. s \in ProbeRecord /\ s.at = "decided" /\ s.code = code /\ Same(probe[p], s)
    BY <2>3, <2>4, <2>5, Zenon DEF ProbeRecord, Same
  <2>7. Advance(probe[p], s)
    BY <2>1, <2>2, <2>6 DEF Advance
  <2> QED
    BY <2>1, <2>6, <2>7, Zenon
<1>6. ASSUME NEW p \in Probes, Answer(p, Phase)
      PROVE  server' = server /\ \E s \in ProbeRecord :
               probe' = [probe EXCEPT ![p] = s] /\ Advance(probe[p], s)
  <2> DEFINE s == [probe[p] EXCEPT !.at = "answered", !.until = Phase]
  <2>1. /\ server' = server /\ probe[p].at = "decided"
        /\ probe' = [probe EXCEPT ![p] = s]
    BY <1>6 DEF Answer
  <2>2. probe[p] \in ProbeRecord
    OBVIOUS
  <2>3. s = [probe[p] EXCEPT !.at = "answered", !.until = Phase]
    OBVIOUS
  <2> HIDE DEF s
  <2>4. Phase \in Times /\ "answered" \in States
    BY PhaseType, Zenon DEF Times, States
  <2>5. /\ s \in ProbeRecord /\ s.at = "answered" /\ s.until = Phase
        /\ s.code = probe[p].code /\ Same(probe[p], s)
    BY <2>2, <2>3, <2>4, Zenon DEF ProbeRecord, Same
  <2>6. Advance(probe[p], s)
    BY <2>1, <2>5 DEF Advance
  <2> QED
    BY <2>1, <2>5, <2>6, Zenon
<1> QED
  BY <1>1, <1>2, <1>3, <1>4, <1>5, <1>6, ZenonT(40) DEF Serve
-----------------------------------------------------------------------------
\* What a step does not undo.
Onward ==
  /\ pc' \in BeforeHealth => pc \in BeforeHealth
  /\ pc \in Stopping \cup Ends => pc' \in Stopping \cup Ends
  /\ pipeline # "none" => pipeline' # "none"
  /\ Agent' = Agent
  /\ ready' => Agent /\ pc' \in {"serving", "markUnready"} \cup Ends
  /\ ProbeRecord \subseteq ProbeRecord'

\* Every step goes onward.
LEMMA OnwardNext ==
  ASSUME Control, ProvidersMade, Served, [Next]_vars
  PROVE  Onward
<1>1. Frame /\ Move
  BY NextFrame, NextMove
<1>2. program' = program
  BY <1>1 DEF Frame
<1>3. pc' \in BeforeHealth => pc \in BeforeHealth
  BY <1>1, <1>2 DEF Move, BeforeHealth, AgentWalk, CmdWalk, Control, Locations, Alive, Ends
<1>4. pc \in Stopping \cup Ends => pc' \in Stopping \cup Ends
  BY <1>1, <1>2 DEF Move, Stopping, AgentWalk, CmdWalk, Control, Locations, Alive, Ends, vars
<1>5. pipeline # "none" => pipeline' # "none"
  BY <1>1, Zenon DEF Frame, StartReader, MakeSender
<1>6. ready' => Agent /\ pc' \in {"serving", "markUnready"} \cup Ends
  <2>1. CASE MarkReady
    BY <2>1, Zenon DEF MarkReady, Main, AgentAfter, Control
  <2>2. CASE MarkUnready
    BY <2>2, Zenon DEF MarkUnready, SetReady
  <2>3. CASE ~MarkReady /\ ~MarkUnready
    <3>1. ready' = ready
      BY <1>1, <2>3, Zenon DEF Frame
    <3>2. ready => Agent /\ pc \in {"serving", "markUnready"} \cup Ends
      BY DEF Served
    <3> QED
      BY <1>1, <2>3, <3>1, <3>2, Zenon DEF Move, AgentWalk, Alive, Ends, vars
  <2> QED
    BY <2>1, <2>2, <2>3, Zenon
<1>7. ProbeRecord \subseteq ProbeRecord'
  <2>1. senderAuth' = senderAuth \/ senderAuth = [type |-> "none"]
    <3>1. CASE MakeSender
      BY <3>1, Zenon DEF MakeSender, Main, ProvidersMade, BeforeSender
    <3> QED
      BY <1>1, <3>1, Zenon DEF Frame
  <2>2. senderAuth = [type |-> "none"] => AddAuthentication(senderAuth) = NoCredentials
    BY DEF AddAuthentication
  <2>3. Sent \subseteq Sent'
    BY <2>1, <2>2, Zenon DEF Sent
  <2> QED
    BY <2>3, Zenon DEF ProbeRecord
<1> QED
  BY <1>2, <1>3, <1>4, <1>5, <1>6, <1>7 DEF Onward, Agent

\* A request that moves stays in order.
LEMMA RequestMoves ==
  ASSUME Control, Served, Onward, Alive, NEW r, RequestOK(r), NEW s, Advance(r, s),
         UNCHANGED <<server, stopped, auth, pc, program, pipeline>>
  PROVE  RequestOK(s)'
<1>1. CASE s.at = "arrived" /\ s.code = 0 /\ s.since = Phase /\ server = "listening"
  BY <1>1 DEF RequestOK, Phase
<1>2. CASE r.at = "arrived" /\ Same(r, s) /\ s.at = "admitted" /\ s.code = 0
  BY <1>2 DEF RequestOK, Same, Waiting
<1>3. CASE /\ r.at = "arrived" /\ Same(r, s) /\ s.at = "decided" /\ s.code \in {401, 500}
           /\ auth.type # "none" /\ Authenticate(auth, r.creds) # "yes"
  BY <1>3 DEF RequestOK, Same, Waiting
<1>4. CASE /\ r.at = "admitted" /\ Same(r, s) /\ s.at = "decided"
           /\ s.code = 503 \/ (s.code = 200 /\ (r.path = "/ready" => ready))
  <2>1. ready => Agent /\ pc \in {"serving", "markUnready"}
    BY Zenon DEF Served, Alive
  <2>2. ready => pc \notin Stopping \cup Ends /\ pc \notin Before
    BY <2>1, Zenon DEF Stopping, Ends, Before
  <2>3. ready => pipeline # "none"
    BY <2>2, Zenon DEF Control
  <2> QED
    BY <1>4, <2>1, <2>2, <2>3 DEF RequestOK, Same, Waiting, Agent
<1>5. CASE r.at = "decided" /\ Same(r, s) /\ s.at = "answered" /\ s.code = r.code /\ s.until = Phase
  BY <1>5 DEF RequestOK, Same, Waiting, Phase, Agent
<1> QED
  BY <1>1, <1>2, <1>3, <1>4, <1>5, ZenonT(40) DEF Advance
-----------------------------------------------------------------------------
\* A request that has not been made is in order.
LEMMA RequestFresh ==
  ASSUME NEW r, r.at \notin Waiting, r.code = 0, r.since # "after"
  PROVE  RequestOK(r)'
<1>1. r.code \notin {401, 500} /\ r.code # 200
  OBVIOUS
<1> QED
  BY <1>1, ZenonT(40) DEF RequestOK

\* Every step keeps Served.
LEMMA ServedNext == Control /\ ProvidersMade /\ Served /\ [Next]_vars => Served'
<1> SUFFICES ASSUME Control, ProvidersMade, Served, [Next]_vars PROVE Served'
  OBVIOUS
<1>1. Onward
  BY OnwardNext, Zenon
<1>2. Frame
  BY NextFrame, Zenon
<1>3. /\ probe \in [Probes -> ProbeRecord] /\ \A p \in Probes : RequestOK(probe[p])
      /\ ProbeRecord \subseteq ProbeRecord'
  BY <1>1, Zenon DEF Served, Onward
<1>4. ASSUME UNCHANGED <<server, stopped, probe, auth>> PROVE Served'
  <2>1. \A p \in Probes : RequestOK(probe[p])'
    BY <1>1, <1>3, <1>4 DEF Onward, RequestOK
  <2>2. InFlight' = InFlight
    BY <1>4, Zenon DEF InFlight
  <2>3. probe' \in [Probes -> ProbeRecord']
    BY <1>3, <1>4, Zenon
  <2> QED
    BY <1>1, <1>4, <2>1, <2>2, <2>3, Zenon DEF Served, Onward
<1>5. CASE StartHealth
  <2>1. /\ server' = "made" /\ UNCHANGED <<stopped, probe>>
        /\ pc = "health" /\ pc' = "reader"
    BY <1>5, Zenon DEF StartHealth, StartServer, Main, AgentAfter, CmdAfter
  <2>2. server = "none" /\ probe = [p \in Probes |-> NoProbe] /\ stopped # "yes"
    BY <2>1, Zenon DEF Served, BeforeHealth
  <2>3. probe' = [p \in Probes |-> NoProbe]
    BY <2>1, <2>2, Zenon
  <2>4. NoProbe.at \notin Waiting /\ NoProbe.code = 0 /\ NoProbe.since # "after"
    BY Zenon DEF NoProbe, Waiting
  <2>5. probe' \in [Probes -> ProbeRecord']
    BY <1>3, <2>1, Zenon
  <2>6. \A p \in Probes : RequestOK(probe[p])'
    <3> TAKE p \in Probes
    <3>1. probe'[p] = NoProbe
      BY <2>3, Zenon
    <3> QED
      BY <2>4, <3>1, RequestFresh DEF RequestOK
  <2> QED
    BY <1>1, <2>1, <2>2, <2>5, <2>6, Zenon DEF Served, Onward, BeforeHealth
<1>6. CASE StopHealth
  <2>1. /\ UNCHANGED <<probe, auth>> /\ pc = "stopHealth"
        /\ \/ server = "listening" /\ server' = "draining" /\ stopped' = "no"
           \/ server \in {"made", "failed"} /\ server' = "closed" /\ stopped' = "yes"
           \/ server = "draining" /\ InFlight = {} /\ server' = "closed" /\ stopped' = "yes"
           \/ server = "draining" /\ server' = "closed" /\ stopped' = "late"
    BY <1>6, Zenon DEF StopHealth, Shutdown, Drained, DrainTimeout
  <2>2. server \in {"made", "failed"} => InFlight = {}
    BY <1>3, Zenon DEF InFlight, RequestOK, Waiting
  <2>3. InFlight' = InFlight
    BY <2>1, Zenon DEF InFlight
  <2>4. stopped' = "yes" => server' = "closed" /\ InFlight' = {}
    BY <2>1, <2>2, <2>3, Zenon
  <2>5. \A p \in Probes : RequestOK(probe[p])'
    <3> TAKE p \in Probes
    <3>1. probe'[p] = probe[p] /\ RequestOK(probe[p])
      BY <1>3, <2>1, Zenon
    <3>2. stopped' = "yes" => probe[p].at \notin Waiting
      BY <2>1, <2>2, Zenon DEF InFlight, Waiting
    <3>3. probe[p].at \in Waiting =>
            server' \in {"listening", "draining"} \/ (server' = "closed" /\ stopped' = "late")
      BY <2>1, <3>2, Zenon
    <3> QED
      BY <1>1, <2>1, <3>1, <3>3 DEF Onward, RequestOK
  <2>6. probe' \in [Probes -> ProbeRecord']
    BY <1>3, <2>1, Zenon
  <2>7. pc' \notin BeforeHealth
    BY <1>1, <2>1, Zenon DEF Onward, BeforeHealth
  <2> QED
    BY <1>1, <2>1, <2>4, <2>5, <2>6, <2>7, Zenon DEF Served, Onward
<1>7. CASE Alive /\ Serve
  <2>1. UNCHANGED <<auth, ready, stopped, program, pc, pipeline, senderAuth>>
    BY <1>3, <1>7, ServeSteps, Zenon
  <2>2. CASE server = "made" /\ server' \in {"listening", "failed"} /\ probe' = probe
    <3>1. \A p \in Probes : probe[p].at \notin Waiting
      BY <1>3, <2>2, Zenon DEF RequestOK
    <3>2. \A p \in Probes : RequestOK(probe[p])'
      BY <1>1, <1>3, <2>1, <2>2, <3>1 DEF Onward, RequestOK
    <3>3. probe' \in [Probes -> ProbeRecord']
      BY <1>3, <2>2, Zenon
    <3>4. pc \notin BeforeHealth /\ stopped # "yes"
      BY <2>2, Zenon DEF Served
    <3> QED
      BY <1>1, <2>1, <2>2, <3>2, <3>3, <3>4, Zenon DEF Served, Onward
  <2>3. CASE /\ server' = server
             /\ \E p \in Probes : \E s \in ProbeRecord :
                  probe' = [probe EXCEPT ![p] = s] /\ Advance(probe[p], s)
    <3>1. PICK p \in Probes, s \in ProbeRecord :
            probe' = [probe EXCEPT ![p] = s] /\ Advance(probe[p], s)
      BY <2>3, Zenon
    <3>2. RequestOK(s)'
      BY <1>1, <1>3, <1>7, <2>1, <2>3, <3>1, RequestMoves
    <3>3. probe'[p] = s /\ \A q \in Probes : q # p => probe'[q] = probe[q]
      BY <1>3, <3>1
    <3>4. ASSUME NEW q \in Probes PROVE RequestOK(probe[q])'
      <4>1. CASE q = p
        BY <3>2, <3>3, <4>1, SMTT(30) DEF RequestOK
      <4>2. CASE q # p
        BY <1>1, <1>3, <2>1, <2>3, <3>3, <4>2 DEF Onward, RequestOK, Served
      <4> QED
        BY <4>1, <4>2
    <3>5. probe' \in [Probes -> ProbeRecord']
      BY <1>3, <3>1, Zenon
    <3>6. server # "none" /\ (stopped = "yes" => InFlight' = {})
      <4>1. probe[p].at \in Waiting \/ server = "listening"
        BY <3>1, Zenon DEF Advance, Waiting
      <4>2. server \in {"listening", "draining"} \/ (server = "closed" /\ stopped = "late")
        BY <1>3, <4>1, Zenon DEF RequestOK
      <4> QED
        BY <4>2, Zenon DEF Served
    <3>7. pc \notin BeforeHealth
      BY <3>6, Zenon DEF Served
    <3> QED
      BY <1>1, <2>1, <2>3, <3>4, <3>5, <3>6, <3>7, Zenon DEF Served, Onward
  <2> QED
    BY <1>3, <1>7, <2>2, <2>3, ServeSteps, Zenon
<1>8. CASE UNCHANGED vars
  BY <1>4, <1>8, Zenon DEF vars, health
<1>9. CASE Next /\ ~StartHealth /\ ~StopHealth /\ ~Serve
  BY <1>2, <1>4, <1>9, Zenon DEF Frame
<1> QED
  BY <1>5, <1>6, <1>7, <1>8, <1>9, Zenon DEF Next

\* The health server and its requests are in order throughout.
LEMMA ServedInvariant == Spec => []Served
  BY ServedInit, ServedNext, ControlInvariant, ProvidersMadeInvariant, PTL DEF Spec

\* After the health server has been stopped without an error it serves nothing.
THEOREM StoppedServesNothingInvariant == Spec => []StoppedServesNothing
<1>1. Served => StoppedServesNothing
  BY Zenon DEF Served, StoppedServesNothing
<1> QED
  BY <1>1, ServedInvariant, PTL

\* The answers of /ready are true.
THEOREM ReadyIsTrueInvariant == Spec => []ReadyIsTrue
<1>1. Served => ReadyIsTrue
  BY ZenonT(40) DEF Served, ReadyIsTrue, RequestOK
<1> QED
  BY <1>1, ServedInvariant, PTL

\* What the own credentials of an agent are refused for.
Excused(a, s) ==
  \/ a.type = "oauth2"
  \/ a.type = "basic" /\ \E i \in DOMAIN a.user : a.user[i] = ":"
  \/ a.type = "token" /\ (a.token = "" \/ a # s)

\* OwnAccepted with its exceptions under one name.
LEMMA OwnExcused ==
  ASSUME NEW c \in ConfigRecord,
         NEW a \in NewAuthProvider(c) \ {Failed}, NEW s \in NewAuthProvider(c) \ {Failed},
         a.type # "none"
  PROVE  Authenticate(a, AddAuthentication(s)) = "yes" \/ Excused(a, s)
  BY OwnAccepted, Zenon DEF Excused

\* The health server accepts the credentials of the agent's own sender, with
\* the stated exceptions.
THEOREM OwnCredentialsPassInvariant == Spec => []OwnCredentialsPass
<1>1. Loaded /\ ProvidersMade /\ Served => OwnCredentialsPass
  <2> SUFFICES ASSUME Loaded, ProvidersMade, Served, NEW p \in Probes,
                      probe[p].code \in {401, 500}, senderAuth.type # "none",
                      probe[p].creds = AddAuthentication(senderAuth)
               PROVE  \/ auth.type = "oauth2"
                      \/ auth.type = "basic" /\ \E i \in DOMAIN auth.user : auth.user[i] = ":"
                      \/ auth.type = "token" /\ (auth.token = "" \/ auth # senderAuth)
    BY ZenonT(40) DEF OwnCredentialsPass
  <2>1. auth.type # "none" /\ Authenticate(auth, AddAuthentication(senderAuth)) # "yes"
    BY DEF Served, RequestOK
  <2>2. auth \in NewAuthProvider(cfg) \ {Failed} /\ senderAuth \in NewAuthProvider(cfg) \ {Failed}
    BY <2>1 DEF ProvidersMade
  <2>3. cfg \in ConfigRecord
    BY DEF Loaded
  <2>4. Excused(auth, senderAuth)
    BY <2>1, <2>2, <2>3, OwnExcused
  <2> QED
    BY <2>4, Zenon DEF Excused
<1> QED
  BY <1>1, LoadedInvariant, ProvidersMadeInvariant, ServedInvariant, PTL
-----------------------------------------------------------------------------
\* The type invariant, of the main goroutine, the telemetry and the requests.
THEOREM TypeOKInvariant == Spec => []TypeOK
<1>1. Init => taken <= MaxLines
  <2>1. Init => taken = 0
    BY Zenon DEF Init
  <2> QED
    BY <2>1, MaxLinesAssumption
<1>2. Control /\ taken <= MaxLines /\ [Next]_vars => (taken <= MaxLines)'
  <2> SUFFICES ASSUME Control, taken <= MaxLines, [Next]_vars PROVE taken' <= MaxLines
    BY Zenon
  <2>1. CASE TakeLine
    BY <2>1, MaxLinesAssumption DEF TakeLine, Control
  <2>2. CASE ~TakeLine
    BY <2>2, Zenon DEF Next, MainStep, vars, parts, Load, LoadFails, NoTelemetry, StartTelemetry,
       StartHealth, HealthFails, MakeReader, ReaderFails, StartReader, StartFails, MakeSender,
       SenderFails, SenderPanic, Notify, MarkReady, GotSignal, MarkUnready, StopHealth,
       StopSender, StopReader, Join, JoinTimeout, Flush, Cleanup, Signal, Expire, Export,
       PipelineEnds, Post, Serve, Fatal
  <2> QED
    BY <2>1, <2>2, Zenon
<1>3. Control /\ taken <= MaxLines /\ Providers /\ Recorded /\ Served => TypeOK
  <2> SUFFICES ASSUME Control, taken <= MaxLines, Providers, Recorded, Served PROVE TypeOK
    BY Zenon
  <2>1. pc \in DOMAIN AgentAfter \cup Ends
    BY Zenon DEF Control, Locations, AgentAfter
  <2>2. taken \in 0..MaxLines
    BY MaxLinesAssumption DEF Control
  <2>3. \A p \in Probes : probe[p].code \in {0, 200, 401, 500, 503}
    BY DEF Served, ProbeRecord, Codes
  <2>4. /\ live \subseteq made /\ made \subseteq {"setup", "manager"}
        /\ spans \in [Spans -> {"none", "open", "batched", "exported", "lost"}]
    BY Zenon DEF Providers, Recorded, SpanStates
  <2>5. /\ server \in {"none", "made", "listening", "failed", "draining", "closed"}
        /\ stopped \in {"no", "yes", "late"}
    BY DEF Served
  <2> QED
    BY <2>1, <2>2, <2>3, <2>4, <2>5, Zenon DEF TypeOK
<1> QED
  BY <1>1, <1>2, <1>3, ControlInvariant, ServedInvariant, ProvidersInit, ProvidersNext,
     RecordedNext, PTL DEF Spec
=============================================================================
