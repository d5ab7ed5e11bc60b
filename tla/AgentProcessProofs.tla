------------------------- MODULE AgentProcessProofs -------------------------
(***************************************************************************)
(* The safety properties of AgentProcess, for every set of machines and    *)
(* configuration files, of probes and of token files.  First, what         *)
(* LoadConfig promises: it applies its defaults once and for all, and the  *)
(* reader factory finds nothing to complain about that LoadConfig should   *)
(* have found.  Then the process: the first invariant ties the progress of *)
(* main to the state of the pipeline; the others rest on it.               *)
(***************************************************************************)
EXTENDS AgentProcess, TLAPS

\* The default of a default path, or of one beside it, is itself, and never
\* empty.
LEMMA LogPathFixed ==
  ASSUME NEW path, NEW sys \in OSes
  PROVE  /\ LogPath(LogPath(path, sys), sys) = LogPath(path, sys)
         /\ LogPath(path, sys) # ""
  BY Zenon DEF LogPath, DefaultLogPath, BesideDefault, PrefixedPath, OSes

\* The defaults are strings of a configuration.
LEMMA DefaultsAreTexts ==
  /\ {"", "http", "tls12", "none", "aes"} \subseteq Texts
  /\ \A sys \in OSes :
       {DefaultSource(sys), DefaultLogPath(sys), BesideDefault(sys)} \subseteq Texts
  BY TextsAssumption, Zenon DEF DefaultTexts

\* The default source has a name, and one that its system supports.
LEMMA DefaultSourceType ==
  ASSUME NEW sys \in OSes
  PROVE  /\ DefaultSource(sys) \in {"file", "windows_event", "macos_asl"}
         /\ DefaultSource(sys) # ""
  BY DEF DefaultSource, OSes

\* The fields of d, the configuration c with its defaults.
HasDefaults(c, sys, d) ==
  /\ d \in ConfigRecord
  /\ d.batch = OrDefault(c.batch, 0, 10) /\ d.flush = OrDefault(c.flush, 0, 5)
  /\ d.source = OrDefault(c.source, "", DefaultSource(sys))
  /\ d.exporter = IF c.telemetry THEN OrDefault(c.exporter, "", "http") ELSE "http"
  /\ d.min = IF c.tls THEN OrDefault(c.min, "", "tls12") ELSE "tls12"
  /\ d.max = IF c.tls THEN c.max ELSE ""
  /\ d.auth = OrDefault(c.auth, "", "none")
  /\ d.cipher = IF c.encryption THEN OrDefault(c.cipher, "", "aes") ELSE "aes"
  /\ d.path = IF d.source = "file" THEN LogPath(c.path, sys) ELSE c.path
  /\ d.given = ((c.given \ (IF c.tls THEN {} ELSE TLSKeys))
                  \ (IF c.encryption THEN {} ELSE EncryptionKeys))
               \cup (IF d.source = "windows_event" THEN WindowsKeys ELSE {})
               \cup TelemetryKeys
  /\ d.telemetry = c.telemetry /\ d.tls = c.tls /\ d.encryption = c.encryption
  /\ d.server = c.server /\ d.user = c.user /\ d.password = c.password
  /\ d.headers = c.headers

\* SetDefaults gives a configuration its defaults.
LEMMA DefaultFields ==
  ASSUME NEW c \in ConfigRecord, NEW sys \in OSes
  PROVE  HasDefaults(c, sys, SetDefaults(c, sys))
<1> DEFINE d        == SetDefaults(c, sys)
           batch    == OrDefault(c.batch, 0, 10)
           flush    == OrDefault(c.flush, 0, 5)
           source   == OrDefault(c.source, "", DefaultSource(sys))
           exporter == IF c.telemetry THEN OrDefault(c.exporter, "", "http") ELSE "http"
           min      == IF c.tls THEN OrDefault(c.min, "", "tls12") ELSE "tls12"
           max      == IF c.tls THEN c.max ELSE ""
           authType == OrDefault(c.auth, "", "none")
           cipher   == IF c.encryption THEN OrDefault(c.cipher, "", "aes") ELSE "aes"
           path     == IF source = "file" THEN LogPath(c.path, sys) ELSE c.path
           given    == ((c.given \ (IF c.tls THEN {} ELSE TLSKeys))
                          \ (IF c.encryption THEN {} ELSE EncryptionKeys))
                       \cup (IF source = "windows_event" THEN WindowsKeys ELSE {})
                       \cup TelemetryKeys
<1>1. batch \in Int /\ flush \in Int
  BY DEF OrDefault, ConfigRecord
<1>2. source \in Texts
  BY DefaultsAreTexts, Zenon DEF OrDefault, ConfigRecord
<1>3. /\ exporter \in Texts /\ min \in Texts /\ max \in Texts /\ authType \in Texts
      /\ cipher \in Texts
  BY DefaultsAreTexts, Zenon DEF OrDefault, ConfigRecord
<1>4. path \in Texts
  BY DefaultsAreTexts, Zenon DEF LogPath, ConfigRecord
<1>5. given \in SUBSET Keys
  BY Zenon DEF Keys, ConfigRecord
<1>6. d = [c EXCEPT !.batch = batch, !.flush = flush, !.source = source,
                    !.exporter = exporter, !.min = min, !.max = max, !.auth = authType,
                    !.cipher = cipher, !.path = path, !.given = given]
  BY Zenon DEF SetDefaults
<1> HIDE DEF d, batch, flush, source, exporter, min, max, authType, cipher, path, given
<1>7. d \in ConfigRecord
  <2>1. c.server \in Texts /\ c.telemetry \in BOOLEAN /\ c.tls \in BOOLEAN
        /\ c.user \in Seq(Texts) /\ c.password \in Seq(Texts)
        /\ c.headers \in SUBSET Texts /\ c.encryption \in BOOLEAN
    BY DEF ConfigRecord
  <2>2. d = [source |-> source, path |-> path, server |-> c.server, batch |-> batch,
             flush |-> flush, telemetry |-> c.telemetry, exporter |-> exporter,
             tls |-> c.tls, min |-> min, max |-> max, auth |-> authType, user |-> c.user,
             password |-> c.password, headers |-> c.headers,
             encryption |-> c.encryption, cipher |-> cipher, given |-> given]
    BY <1>6, Zenon DEF ConfigRecord
  <2> QED
    BY <2>1, <2>2, <1>1, <1>2, <1>3, <1>4, <1>5, Zenon DEF ConfigRecord
<1>8. d.batch = batch /\ d.flush = flush /\ d.source = source /\ d.exporter = exporter
  BY <1>6 DEF ConfigRecord
<1>9. d.min = min /\ d.max = max /\ d.auth = authType
  BY <1>6 DEF ConfigRecord
<1>10. d.cipher = cipher /\ d.path = path /\ d.given = given
  BY <1>6 DEF ConfigRecord
<1>11. /\ d.telemetry = c.telemetry /\ d.tls = c.tls /\ d.encryption = c.encryption
       /\ d.server = c.server /\ d.user = c.user /\ d.password = c.password
       /\ d.headers = c.headers
  BY <1>6 DEF ConfigRecord
<1> QED
  BY <1>7, <1>8, <1>9, <1>10, <1>11, Zenon
     DEF HasDefaults, d, batch, flush, source, exporter, min, max, authType, cipher, path, given

\* Two configurations with the same fields are the same.
LEMMA SameFields ==
  ASSUME NEW c \in ConfigRecord, NEW d \in ConfigRecord,
         c.source = d.source, c.path = d.path, c.server = d.server, c.batch = d.batch,
         c.flush = d.flush, c.telemetry = d.telemetry, c.exporter = d.exporter,
         c.tls = d.tls, c.min = d.min, c.max = d.max, c.auth = d.auth, c.user = d.user,
         c.password = d.password, c.headers = d.headers, c.encryption = d.encryption,
         c.cipher = d.cipher, c.given = d.given
  PROVE  c = d
  BY DEF ConfigRecord

\* Setting the defaults twice is setting them once.
LEMMA DefaultsFixed ==
  ASSUME NEW c \in ConfigRecord, NEW sys \in OSes
  PROVE  /\ SetDefaults(c, sys) \in ConfigRecord
         /\ SetDefaults(SetDefaults(c, sys), sys) = SetDefaults(c, sys)
<1> DEFINE d == SetDefaults(c, sys)
           e == SetDefaults(d, sys)
<1>1. HasDefaults(c, sys, d)
  BY DefaultFields
<1>2. d \in ConfigRecord
  BY <1>1, Zenon DEF HasDefaults
<1>3. HasDefaults(d, sys, e)
  BY <1>2, DefaultFields
<1>4. e \in ConfigRecord
  BY <1>3, Zenon DEF HasDefaults
<1> HIDE DEF d, e
<1>5. e.source = d.source
  BY <1>1, <1>3, DefaultSourceType, Zenon DEF HasDefaults, OrDefault
<1>6. e.path = d.path
  <2>1. d.path = IF d.source = "file" THEN LogPath(c.path, sys) ELSE c.path
    BY <1>1, Zenon DEF HasDefaults
  <2>2. e.path = IF d.source = "file" THEN LogPath(d.path, sys) ELSE d.path
    BY <1>3, <1>5, Zenon DEF HasDefaults
  <2> QED
    BY <2>1, <2>2, LogPathFixed, Zenon
<1>7. e.given = d.given
  <2>1. /\ TLSKeys \cap (WindowsKeys \cup TelemetryKeys) = {}
        /\ EncryptionKeys \cap (WindowsKeys \cup TelemetryKeys) = {}
    BY DEF TLSKeys, EncryptionKeys, WindowsKeys, TelemetryKeys
  <2> QED
    BY <1>1, <1>3, <1>5, <2>1, ZenonT(40) DEF HasDefaults
<1>8. e.batch = d.batch /\ e.flush = d.flush /\ e.auth = d.auth
  BY <1>1, <1>3, Zenon DEF HasDefaults, OrDefault
<1>9. e.exporter = d.exporter /\ e.telemetry = d.telemetry
  BY <1>1, <1>3, Zenon DEF HasDefaults, OrDefault
<1>10. e.min = d.min /\ e.max = d.max /\ e.tls = d.tls
  BY <1>1, <1>3, Zenon DEF HasDefaults, OrDefault
<1>11. e.cipher = d.cipher /\ e.encryption = d.encryption
  BY <1>1, <1>3, Zenon DEF HasDefaults, OrDefault
<1>12. /\ e.server = d.server /\ e.user = d.user /\ e.password = d.password
       /\ e.headers = d.headers
  BY <1>3, Zenon DEF HasDefaults
<1>13. e = d
  BY <1>2, <1>4, <1>5, <1>6, <1>7, <1>8, <1>9, <1>10, <1>11, <1>12, SameFields, Zenon
<1> QED
  BY <1>2, <1>13 DEF d, e

\* LoadConfig is idempotent: a configuration it returned, saved and loaded
\* again on the same system, is returned unchanged; no second pass over the
\* defaults or the validation finds anything left to do.
THEOREM LoadConfigIdempotent ==
  ASSUME NEW c \in ConfigRecord, NEW sys \in OSes, NEW d \in LoadConfig(c, sys)
  PROVE  d \in ConfigRecord /\ LoadConfig(d, sys) = {d}
<1>1. d = SetDefaults(c, sys) /\ Valid(d, sys)
  BY DEF LoadConfig
<1>2. d \in ConfigRecord /\ SetDefaults(d, sys) = d
  BY <1>1, DefaultsFixed
<1> QED
  BY <1>1, <1>2, Zenon DEF LoadConfig

\* A source type spelled as in the code, other than "pod", means the same to
\* both programs, and NewReader has nothing to say against a configuration
\* that LoadConfig let pass: only the environment (a cluster that cannot be
\* reached) can make it fail.
THEOREM LoadedHasReader ==
  ASSUME NEW c \in ConfigRecord, NEW sys \in OSes, NEW d \in LoadConfig(c, sys),
         d.source \in SourceTypes \ {"pod"}
  PROVE  /\ ParseSourceType(d.source) = d.source
         /\ NewReader(d.source, d, sys) # {"error"}
<1>1. ValidSource(d, sys)
  BY Zenon DEF LoadConfig, Valid
<1>2. ParseSourceType(d.source) = d.source
  BY DEF ParseSourceType, ToLower, SourceTypes
<1>3. NewReader(d.source, d, sys) # {"error"}
  BY <1>1, Zenon DEF ValidSource, NewReader, SourceTypes
<1> QED
  BY <1>2, <1>3

-----------------------------------------------------------------------------

Locations ==
  {"load", "telemetry", "health", "reader", "sender", "notify", "start", "markReady",
   "serving", "markUnready", "stopHealth", "stopSender", "stopReader", "join", "flush",
   "cleanup"} \cup Ends

\* The steps of main before the pipeline runs.
Before ==
  IF Agent THEN {"load", "telemetry", "health", "reader", "sender", "notify", "start"}
           ELSE {"load", "telemetry", "health", "reader", "start", "sender"}

\* Where main is, and what it has started.
Control ==
  /\ program \in {"agent", "cmd"}
  /\ pc \in Locations
  /\ ~Agent => pc \notin {"markReady", "markUnready", "flush"}
  /\ pipeline \in {"none", "running", "done"}
  /\ taken \in Nat
  /\ pipeline = "none" => taken = 0
  /\ pc \in Before => pipeline = "none"
  /\ Alive /\ pc \notin Before => pipeline # "none"

\* Control holds at first.
LEMMA ControlInit == Init => Control
<1> SUFFICES ASSUME Init PROVE Control
  BY Zenon
<1>1. program \in {"agent", "cmd"} /\ pc = "load" /\ pipeline = "none" /\ taken = 0
  BY Zenon DEF Init
<1> QED
  BY <1>1 DEF Control, Locations, Ends, Agent, Before, Alive

\* The steps of main that leave the pipeline alone.
LEMMA MainControl ==
  ASSUME Control, NEW at \in Locations \ Ends, Main(at), UNCHANGED <<pipeline, taken>>,
         at \notin {"start", "sender"} \/ (Agent /\ at = "sender") \/ (~Agent /\ at = "start")
  PROVE  Control'
<1>1. pc \notin Ends /\ pc = at /\ program' = program
  BY Zenon DEF Main
<1>2. CASE Agent
  BY <1>1, <1>2 DEF Main, AgentAfter, Control, Before, Alive, Agent, Ends, Locations
<1>3. CASE ~Agent
  BY <1>1, <1>3 DEF Main, CmdAfter, Control, Before, Alive, Agent, Ends, Locations
<1> QED
  BY <1>2, <1>3

\* The steps after which the process has ended.
LEMMA EndControl ==
  ASSUME Control, pc' \in Ends, UNCHANGED <<program, pipeline>>,
         taken' = taken
  PROVE  Control'
  BY Zenon DEF Control, Before, Alive, Agent, Ends, Locations

\* The steps that change neither the place of main nor the pipeline.
LEMMA StillControl ==
  ASSUME Control, UNCHANGED <<program, pc, pipeline, taken>>
  PROVE  Control'
  BY Zenon DEF Control, Before, Alive, Agent

\* Every step keeps Control.
LEMMA ControlNext == Control /\ [Next]_vars => Control'
<1> SUFFICES ASSUME Control, [Next]_vars PROVE Control'
  OBVIOUS
<1> USE DEF parts
<1>1. CASE Load
  BY <1>1, MainControl, Zenon DEF Load, Locations, Ends
<1>2. CASE LoadFails
  BY <1>2, EndControl, Zenon DEF LoadFails, Fatal, Ends
<1>3. CASE NoTelemetry
  BY <1>3, MainControl, Zenon DEF NoTelemetry, Locations, Ends
<1>4. CASE StartTelemetry
  BY <1>4, MainControl, Zenon DEF StartTelemetry, Locations, Ends
<1>5. CASE StartHealth
  BY <1>5, MainControl, Zenon DEF StartHealth, Locations, Ends
<1>6. CASE HealthFails
  BY <1>6, EndControl, Zenon DEF HealthFails, Fatal, Ends
<1>7. CASE MakeReader
  BY <1>7, MainControl, Zenon DEF MakeReader, Locations, Ends
<1>8. CASE ReaderFails
  BY <1>8, EndControl, Zenon DEF ReaderFails, Fatal, Ends
<1>9. CASE StartReader
  BY <1>9, Zenon DEF StartReader, Main, AgentAfter, CmdAfter, Control, Before, Alive, Agent,
              Ends, Locations
<1>10. CASE StartFails
  BY <1>10, EndControl, Zenon DEF StartFails, Fatal, Ends
<1>11. CASE MakeSender
  BY <1>11, Zenon DEF MakeSender, Main, AgentAfter, CmdAfter, Control, Before, Alive, Agent,
               Ends, Locations
<1>12. CASE SenderFails
  BY <1>12, EndControl, Zenon DEF SenderFails, Fatal, Ends
<1>13. CASE SenderPanic
  BY <1>13, EndControl, Zenon DEF SenderPanic, Ends
<1>14. CASE Notify
  BY <1>14, MainControl, Zenon DEF Notify, Locations, Ends
<1>15. CASE MarkReady
  BY <1>15, MainControl, Zenon DEF MarkReady, Locations, Ends
<1>16. CASE GotSignal
  BY <1>16, MainControl, Zenon DEF GotSignal, Locations, Ends
<1>17. CASE MarkUnready
  BY <1>17, MainControl, Zenon DEF MarkUnready, Locations, Ends
<1>18. CASE StopHealth
  <2>1. \/ UNCHANGED <<program, pc, pipeline, taken>>
        \/ (pc = "stopHealth" /\ Main("stopHealth") /\ UNCHANGED <<pipeline, taken>>)
    BY <1>18, Zenon DEF StopHealth
  <2> QED
    BY <2>1, MainControl, StillControl, Zenon DEF Locations, Ends
<1>19. CASE StopSender \/ StopReader
  BY <1>19, MainControl, Zenon DEF StopSender, StopReader, Locations, Ends
<1>20. CASE Join \/ JoinTimeout
  BY <1>20, MainControl DEF Join, JoinTimeout, Locations, Ends
<1>21. CASE Flush \/ Cleanup
  BY <1>21, MainControl, Zenon DEF Flush, Cleanup, Locations, Ends
<1>22. CASE Signal
  BY <1>22, EndControl, StillControl, Zenon DEF Signal, Ends
<1>23. CASE Expire \/ Export \/ Post \/ Serve
  BY <1>23, StillControl, Zenon DEF Expire, Export, Post, Serve
<1>24. CASE Alive /\ TakeLine
  BY <1>24 DEF TakeLine, Control, Before, Alive, Agent, Ends, Locations
<1>25. CASE Alive /\ PipelineEnds
  BY <1>25, Zenon DEF PipelineEnds, Control, Before, Alive, Agent, Ends, Locations
<1>26. CASE UNCHANGED vars
  BY <1>26, StillControl DEF vars
<1> QED
  BY <1>1, <1>2, <1>3, <1>4, <1>5, <1>6, <1>7, <1>8, <1>9, <1>10, <1>11, <1>12, <1>13,
     <1>14, <1>15, <1>16, <1>17, <1>18, <1>19, <1>20, <1>21, <1>22, <1>23, <1>24, <1>25,
     <1>26, Zenon DEF Next, MainStep

\* Main and the pipeline go together throughout.
THEOREM ControlInvariant == Spec => []Control
  BY ControlInit, ControlNext, PTL DEF Spec

-----------------------------------------------------------------------------
\* Which action changes what.
Frame ==
  /\ UNCHANGED <<program, os, clients>>
  /\ Load \/ UNCHANGED cfg
  /\ StartTelemetry \/ UNCHANGED <<manager, tracer, made>>
  /\ MakeReader \/ StartReader \/ UNCHANGED <<reader, kind>>
  /\ MakeSender \/ UNCHANGED senderAuth
  /\ Notify \/ UNCHANGED notified
  /\ StartHealth \/ UNCHANGED auth
  /\ StartHealth \/ StopHealth \/ Serve \/ UNCHANGED <<server, stopped, probe>>
  /\ MarkReady \/ MarkUnready \/ UNCHANGED ready
  /\ StartHealth \/ Flush \/ Cleanup \/ Export \/ TakeLine \/ Post \/ UNCHANGED spans
  /\ StartTelemetry \/ Flush \/ Cleanup \/ UNCHANGED live
  /\ StartReader \/ MakeSender \/ UNCHANGED pipeline \/ pipeline' = "done"
  /\ expired => expired'
  /\ HealthFails \/ ReaderFails \/ SenderFails \/ cause' = cause
       \/ cause' \in {"load", "environment"}

\* Every step respects Frame.
LEMMA NextFrame == [Next]_vars => Frame
<1> SUFFICES ASSUME [Next]_vars PROVE Frame
  BY Zenon
<1> USE DEF Frame, tel, parts, sig, health, Main, Fatal
<1>1. CASE Load \/ LoadFails
  BY <1>1 DEF Load, LoadFails
<1>2. CASE NoTelemetry \/ StartTelemetry
  BY <1>2 DEF NoTelemetry, StartTelemetry
<1>3. CASE StartHealth
  BY <1>3 DEF StartHealth, StartServer
<1>4. CASE HealthFails
  BY <1>4, Zenon DEF HealthFails
<1>5. CASE MakeReader \/ ReaderFails
  BY <1>5 DEF MakeReader, ReaderFails
<1>6. CASE StartReader \/ StartFails
  BY <1>6 DEF StartReader, StartFails
<1>7. CASE MakeSender \/ SenderFails \/ SenderPanic
  BY <1>7 DEF MakeSender, SenderFails, SenderPanic
<1>8. CASE Notify \/ GotSignal \/ Signal
  BY <1>8 DEF Notify, GotSignal, Signal
<1>9. CASE MarkReady \/ MarkUnready
  BY <1>9 DEF MarkReady, MarkUnready, SetReady
<1>10. CASE StopHealth
  BY <1>10, ZenonT(40) DEF StopHealth, Shutdown, Drained, DrainTimeout
<1>11. CASE StopSender \/ StopReader \/ Join \/ JoinTimeout \/ Expire
  BY <1>11 DEF StopSender, StopReader, Join, JoinTimeout, Expire
<1>12. CASE Flush \/ Cleanup
  BY <1>12, SMTT(30) DEF Flush, Cleanup
<1>13. CASE Export \/ TakeLine \/ PipelineEnds \/ Post
  BY <1>13 DEF Export, TakeLine, PipelineEnds, Post
<1>14. CASE Serve
  BY <1>14, ZenonT(40) DEF Serve, Listen, ListenFails, Request, WithAuth, Handle, Answer
<1>15. CASE UNCHANGED vars
  BY <1>15, Zenon DEF vars
<1> QED
  BY <1>1, <1>2, <1>3, <1>4, <1>5, <1>6, <1>7, <1>8, <1>9, <1>10, <1>11, <1>12, <1>13,
     <1>14, <1>15, Zenon DEF Next, MainStep

\* How main goes on, step by step, and the action that does it.
AgentWalk ==
  \/ pc = "load" /\ pc' = "telemetry" /\ Load
  \/ pc = "telemetry" /\ pc' = "health" /\ (NoTelemetry \/ StartTelemetry)
  \/ pc = "health" /\ pc' = "reader" /\ StartHealth
  \/ pc = "reader" /\ pc' = "sender" /\ MakeReader
  \/ pc = "sender" /\ pc' = "notify" /\ MakeSender
  \/ pc = "notify" /\ pc' = "start" /\ Notify
  \/ pc = "start" /\ pc' = "markReady" /\ StartReader
  \/ pc = "markReady" /\ pc' = "serving"
  \/ pc = "serving" /\ pc' = "markUnready"
  \/ pc = "markUnready" /\ pc' = "stopHealth" /\ MarkUnready
  \/ pc = "stopHealth" /\ pc' = "stopSender"
  \/ pc = "stopSender" /\ pc' = "stopReader"
  \/ pc = "stopReader" /\ pc' = "join"
  \/ pc = "join" /\ pc' = "flush" /\ (Join \/ JoinTimeout)
  \/ pc = "flush" /\ pc' = "cleanup" /\ Flush
  \/ pc = "cleanup" /\ pc' = "exited" /\ Cleanup

CmdWalk ==
  \/ pc = "load" /\ pc' = "telemetry" /\ Load
  \/ pc = "telemetry" /\ pc' = "health" /\ (NoTelemetry \/ StartTelemetry)
  \/ pc = "health" /\ pc' = "reader" /\ StartHealth
  \/ pc = "reader" /\ pc' = "start" /\ MakeReader
  \/ pc = "start" /\ pc' = "sender" /\ StartReader
  \/ pc = "sender" /\ pc' = "notify" /\ MakeSender
  \/ pc = "notify" /\ pc' = "serving" /\ Notify
  \/ pc = "serving" /\ pc' = "stopReader"
  \/ pc = "stopReader" /\ pc' = "stopSender"
  \/ pc = "stopSender" /\ pc' = "stopHealth"
  \/ pc = "stopHealth" /\ pc' = "join"
  \/ pc = "join" /\ pc' = "cleanup" /\ (Join \/ JoinTimeout)
  \/ pc = "cleanup" /\ pc' = "exited" /\ Cleanup

\* Main stays, goes on, or comes to an end.
Move ==
  \/ pc' = pc /\ (Alive \/ UNCHANGED vars)
  \/ Alive /\ (IF Agent THEN AgentWalk ELSE CmdWalk)
  \/ Alive /\ pc' = "fatal"
  \/ Alive /\ pc' = "killed" /\ ~notified /\ UNCHANGED parts
  \/ Alive /\ pc' = "panicked" /\ (SenderPanic \/ TakeLine)

\* Every step moves main as Move says.
LEMMA NextMove == Control /\ [Next]_vars => Move
<1> SUFFICES ASSUME Control, [Next]_vars PROVE Move
  BY Zenon
<1> USE DEF Move, Main, Fatal, AgentWalk, CmdWalk, AgentAfter, CmdAfter, Control
<1>1. CASE Alive /\ (Load \/ LoadFails)
  BY <1>1, Zenon DEF Load, LoadFails
<1>2. CASE Alive /\ (NoTelemetry \/ StartTelemetry)
  BY <1>2, Zenon DEF NoTelemetry, StartTelemetry
<1>3. CASE Alive /\ (StartHealth \/ HealthFails)
  BY <1>3, Zenon DEF StartHealth, HealthFails
<1>4. CASE Alive /\ (MakeReader \/ ReaderFails)
  BY <1>4, Zenon DEF MakeReader, ReaderFails
<1>5. CASE Alive /\ (StartReader \/ StartFails)
  BY <1>5, Zenon DEF StartReader, StartFails
<1>6. CASE Alive /\ (MakeSender \/ SenderFails \/ SenderPanic)
  BY <1>6, Zenon DEF MakeSender, SenderFails, SenderPanic
<1>7. CASE Alive /\ (Notify \/ GotSignal \/ Signal)
  BY <1>7, Zenon DEF Notify, GotSignal, Signal
<1>8. CASE Alive /\ (MarkReady \/ MarkUnready)
  BY <1>8, Zenon DEF MarkReady, MarkUnready
<1>9. CASE Alive /\ StopHealth
  BY <1>9, Zenon DEF StopHealth
<1>10. CASE Alive /\ (StopSender \/ StopReader \/ Join \/ JoinTimeout \/ Expire)
  BY <1>10, Zenon DEF StopSender, StopReader, Join, JoinTimeout, Expire
<1>11. CASE Alive /\ (Flush \/ Cleanup)
  BY <1>11, Zenon DEF Flush, Cleanup
<1>12. CASE Alive /\ (Export \/ TakeLine \/ PipelineEnds \/ Post \/ Serve)
  BY <1>12, Zenon DEF Export, TakeLine, PipelineEnds, Post, Serve
<1>13. CASE UNCHANGED vars
  BY <1>13 DEF vars
<1> QED
  BY <1>1, <1>2, <1>3, <1>4, <1>5, <1>6, <1>7, <1>8, <1>9, <1>10, <1>11, <1>12, <1>13, Zenon
     DEF Next, MainStep

-----------------------------------------------------------------------------
\* A configuration is a record of the known fields throughout.
Loaded ==
  /\ os \in OSes
  /\ cfg \in ConfigRecord
  /\ LoadedIsFixed

\* Loaded holds in every reachable state.
LEMMA LoadedInvariant == Spec => []Loaded
<1>1. Init => Loaded
  <2> SUFFICES ASSUME Init PROVE Loaded
    OBVIOUS
  <2>1. pc = "load"
    BY Zenon DEF Init
  <2>2. PICK m \in Machines : os = m.os /\ cfg = m.file
    BY Zenon DEF Init
  <2> QED
    BY <2>1, <2>2, MachinesAssumption, Zenon DEF Loaded, LoadedIsFixed
<1>2. Control /\ Loaded /\ [Next]_vars => Loaded'
  <2> SUFFICES ASSUME Control, Loaded, [Next]_vars PROVE Loaded'
    OBVIOUS
  <2>1. Frame /\ Move
    BY NextFrame, NextMove
  <2>2. CASE Load
    <3>1. PICK d \in LoadConfig(cfg, os) : cfg' = d /\ os' = os
      BY <2>2, Zenon DEF Load, Main
    <3> QED
      BY <3>1, LoadConfigIdempotent, Zenon DEF Loaded, LoadedIsFixed
  <2>3. CASE ~Load
    <3>1. UNCHANGED <<os, cfg>>
      BY <2>1, <2>3, Zenon DEF Frame
    <3>2. pc = "load" => pc' \in {"load", "fatal", "killed"}
      BY <2>1, <2>3, Zenon DEF Move, AgentWalk, CmdWalk, Control, Before, SenderPanic, TakeLine
    <3>3. pc \in {"fatal", "killed"} => pc' = pc
      BY <2>1 DEF Move, Alive, Ends
    <3> QED
      BY <3>1, <3>2, <3>3, Zenon DEF Loaded, LoadedIsFixed
  <2> QED
    BY <2>2, <2>3
<1> QED
  BY <1>1, <1>2, ControlInvariant, PTL DEF Spec

\* What main works with is complete: LoadedIsFixed, for every file on every
\* system.
THEOREM LoadedIsFixedInvariant == Spec => []LoadedIsFixed
  BY LoadedInvariant, PTL DEF Loaded

\* Before cmd/agent.go asks for the signals it has not started its reader.
Signalled ==
  /\ Agent /\ pc \in Before => reader # "started"
  /\ Agent /\ Alive /\ ~notified => pc \in Before \ {"start"}
  /\ KilledBeforeFirstLine

\* A signal that kills cmd/agent.go drops no line: KilledBeforeFirstLine, for
\* every configuration.
THEOREM KilledBeforeFirstLineInvariant == Spec => []KilledBeforeFirstLine
<1>1. Init => Signalled
  <2> SUFFICES ASSUME Init PROVE Signalled
    OBVIOUS
  <2>1. pc = "load" /\ reader = "none"
    BY Zenon DEF Init
  <2> QED
    BY <2>1, Zenon DEF Signalled, KilledBeforeFirstLine, Before
<1>2. Control /\ Signalled /\ [Next]_vars => Signalled'
  <2> SUFFICES ASSUME Control, Signalled, [Next]_vars PROVE Signalled'
    OBVIOUS
  <2>1. Frame /\ Move
    BY NextFrame, NextMove
  <2>2. program' = program
    BY <2>1, Zenon DEF Frame
  <2>3. (Agent /\ pc \in Before => reader # "started")'
    <3>1. Agent /\ pc' \in Before' => pc \in Before
      BY <2>1, <2>2, Zenon DEF Move, Control, Locations, Before, Agent, Ends, Alive, AgentWalk
    <3>2. StartReader /\ Agent => pc' \notin Before'
      BY <2>2, Zenon DEF StartReader, Main, Agent, Before, AgentAfter
    <3>3. MakeReader => reader' # "started"
      BY Zenon DEF MakeReader
    <3> QED
      BY <2>1, <2>2, <3>1, <3>2, <3>3, Zenon DEF Frame, Signalled, Agent
  <2>4. (Agent /\ Alive /\ ~notified => pc \in Before \ {"start"})'
    <3>1. Notify => notified'
      BY Zenon DEF Notify
    <3>2. CASE UNCHANGED notified
      BY <2>1, <2>2, <3>1, <3>2, Zenon DEF Move, vars, Signalled, Before, Agent, Ends, Alive,
         AgentWalk
    <3> QED
      BY <2>1, <3>1, <3>2, Zenon DEF Frame
  <2>5. KilledBeforeFirstLine'
    <3>1. CASE pc = "killed"
      BY <2>1, <3>1, Zenon DEF Move, Alive, Ends, vars, parts, Signalled, KilledBeforeFirstLine,
         Agent
    <3>2. CASE pc # "killed" /\ pc' = "killed"
      <4>1. Alive /\ ~notified /\ UNCHANGED parts
        BY <2>1, <3>2 DEF Move, Alive, Agent, AgentWalk, CmdWalk, Control, Locations, Ends
      <4> QED
        BY <4>1, <2>2, Zenon DEF Control, Signalled, KilledBeforeFirstLine, Agent, parts
    <3> QED
      BY <3>1, <3>2, Zenon DEF KilledBeforeFirstLine
  <2> QED
    BY <2>3, <2>4, <2>5, Zenon DEF Signalled
<1> QED
  BY <1>1, <1>2, ControlInvariant, PTL DEF Spec, Signalled

-----------------------------------------------------------------------------
\* What is known of the telemetry manager.
Managed ==
  /\ pc \in {"load", "telemetry"} => ~manager
  /\ manager => cfg.telemetry
  /\ manager /\ tracer = "nil" => cfg.exporter # "none" /\ "manager" \notin made
  /\ PanicsOnlyOn

\* The process panics for no other reason than the two of PanicsOnlyOn,
\* whatever the configuration.
THEOREM PanicsOnlyOnInvariant == Spec => []PanicsOnlyOn
<1>1. Init => Managed
  <2> SUFFICES ASSUME Init PROVE Managed
    OBVIOUS
  <2>1. pc = "load" /\ manager = FALSE
    BY Zenon DEF Init
  <2> QED
    BY <2>1, Zenon DEF Managed, PanicsOnlyOn
<1>2. Control /\ Managed /\ [Next]_vars => Managed'
  <2> SUFFICES ASSUME Control, Managed, [Next]_vars PROVE Managed'
    OBVIOUS
  <2>1. Frame /\ Move
    BY NextFrame, NextMove
  <2>2. CASE StartTelemetry
    <3>1. /\ pc = "telemetry" /\ pc' = "health" /\ cfg' = cfg /\ cfg.telemetry
          /\ \E s \in Setup :
               /\ tracer' \in IF manager' THEN ManagerStart(cfg) ELSE {"nil"}
               /\ made' = s \cup (IF tracer' = "real" THEN {"manager"} ELSE {})
      BY <2>2 DEF StartTelemetry, Main, AgentAfter, CmdAfter
    <3>2. manager' /\ tracer' = "nil" => cfg.exporter # "none" /\ "manager" \notin made'
      BY <3>1, Zenon DEF Setup, ManagerStart
    <3> QED
      BY <3>1, <3>2, ZenonT(40) DEF Managed, PanicsOnlyOn
  <2>3. CASE ~StartTelemetry
    <3>1. UNCHANGED <<program, manager, tracer, made>>
      BY <2>1, <2>3, Zenon DEF Frame
    <3>2. pc' \in {"load", "telemetry"} => pc \in {"load", "telemetry"}
      BY <2>1, Zenon DEF Move, AgentWalk, CmdWalk, Control, Locations, Ends, Alive
    <3>3. manager => cfg' = cfg
      BY <2>1, Zenon DEF Frame, Load, Main, Managed
    <3>4. PanicsOnlyOn'
      <4>1. CASE pc = "panicked"
        BY <2>1, <3>1, <4>1, Zenon DEF Move, vars, Managed, PanicsOnlyOn, Agent, Alive, Ends
      <4>2. CASE pc # "panicked" /\ pc' = "panicked"
        <5>1. SenderPanic \/ TakeLine
          BY <2>1, <4>2, Zenon DEF Move, Alive, AgentWalk, CmdWalk, Control, Locations, Ends
        <5>2. CASE SenderPanic
          BY <5>2, Zenon DEF SenderPanic, SenderPanics, PanicsOnlyOn, Secure
        <5>3. CASE TakeLine
          BY <3>1, <5>3, <4>2, Zenon DEF TakeLine, Managed, PanicsOnlyOn, Agent
        <5> QED
          BY <5>1, <5>2, <5>3, Zenon
      <4> QED
        BY <4>1, <4>2, Zenon DEF PanicsOnlyOn
    <3> QED
      BY <3>1, <3>2, <3>3, <3>4, Zenon DEF Managed
  <2> QED
    BY <2>2, <2>3
<1> QED
  BY <1>1, <1>2, ControlInvariant, PTL DEF Spec, Managed

-----------------------------------------------------------------------------
AuthTypes == {"none", "basic", "token", "oauth2", "header"}

\* An authentication provider can be made for the known types, and for no
\* other.
LEMMA KnownAuth ==
  ASSUME NEW c
  PROVE  /\ c.auth \in AuthTypes => NewAuthProvider(c) \ {Failed} # {}
         /\ c.auth \notin AuthTypes => NewAuthProvider(c) = {Failed}
<1>1. \A x : /\ [type |-> "token", token |-> x] # Failed
             /\ [type |-> "header", headers |-> x] # Failed
             /\ \A y : [type |-> "basic", user |-> x, password |-> y] # Failed
  BY Zenon DEF Failed
<1>2. [type |-> "none"] # Failed /\ [type |-> "oauth2"] # Failed
  BY DEF Failed
<1>3. CASE c.auth = "none"
  BY <1>2, <1>3, Zenon DEF NewAuthProvider, AuthTypes
<1>4. CASE c.auth = "basic"
  BY <1>1, <1>4, Zenon DEF NewAuthProvider, AuthTypes
<1>5. CASE c.auth = "token"
  <2>1. PICK t \in Tokens : TRUE
    BY TokensAssumption
  <2>2. [type |-> "token", token |-> t] \in NewAuthProvider(c)
    BY <1>5, <2>1 DEF NewAuthProvider
  <2> QED
    BY <1>1, <1>5, <2>2 DEF AuthTypes
<1>6. CASE c.auth = "oauth2"
  BY <1>2, <1>6, Zenon DEF NewAuthProvider, AuthTypes
<1>7. CASE c.auth = "header"
  BY <1>1, <1>7, Zenon DEF NewAuthProvider, AuthTypes
<1>8. CASE c.auth \notin AuthTypes
  BY <1>8 DEF NewAuthProvider, AuthTypes
<1> QED
  BY <1>3, <1>4, <1>5, <1>6, <1>7, <1>8, Zenon DEF AuthTypes

\* The source types for which a program has a reader.
ReadableSource ==
  \/ cfg.source \in {"file", "container", "windows_event", "macos_asl"}
  \/ /\ Agent
     /\ \/ cfg.source = "File" /\ cfg.path # ""
        \/ cfg.source = "Container"
           /\ {"namespace", "pod_name", "container_name"} \subseteq cfg.given
        \/ cfg.source \in {"windows", "event"} /\ os = "windows"
        \/ cfg.source \in {"macos", "asl"} /\ os = "darwin"

\* NewReader makes a reader for the readable sources, if they are valid, and for
\* no others.
LEMMA ReadersReadable ==
  ASSUME Control
  PROVE  /\ Readers # {"error"} => ReadableSource
         /\ ReadableSource /\ ValidSource(cfg, os) => Readers # {"error"}
<1>1. CASE Agent
  BY <1>1, Zenon DEF Readers, NewReader, SourceType, ParseSourceType, ToLower, ReadableSource,
     ValidSource
<1>2. CASE ~Agent
  BY <1>2, Zenon DEF Readers, NewReader, SourceType, ReadableSource, ValidSource
<1> QED
  BY <1>1, <1>2, Zenon

\* What the sender asks of the configuration, besides a known authentication.
SendableWith(c) ==
  /\ c.tls => c.min \in TLSVersions /\ c.max \in TLSVersions \cup {""}
  /\ c.encryption => c.cipher \in {"aes", "chacha20poly1305"}

\* A sender is made only for what SendableWith admits, and for that it can be.
LEMMA NewSenderOutcomes ==
  ASSUME NEW c
  PROVE  /\ \A p \in NewSender(c) \ {Failed} : SendableWith(c) /\ p \in NewAuthProvider(c)
         /\ SendableWith(c) /\ ValidEncryption(c) => NewAuthProvider(c) \subseteq NewSender(c)
<1>1. "ok" \in CreateTLSConfig(c) <=>
        (c.tls => c.min \in TLSVersions /\ c.max \in TLSVersions \cup {""})
  BY Zenon DEF CreateTLSConfig
<1>2. "ok" \in NewEncryptionProvider(c) =>
        (c.encryption => c.cipher \in {"aes", "chacha20poly1305"})
  BY DEF NewEncryptionProvider
<1>3. (c.encryption => c.cipher \in {"aes", "chacha20poly1305"}) /\ ValidEncryption(c)
        => "ok" \in NewEncryptionProvider(c)
  BY Zenon DEF NewEncryptionProvider, ValidEncryption
<1>4. ASSUME NEW p \in NewSender(c) \ {Failed}
      PROVE  SendableWith(c) /\ p \in NewAuthProvider(c)
  BY <1>1, <1>2, Zenon DEF NewSender, SendableWith
<1>5. SendableWith(c) /\ ValidEncryption(c) => NewAuthProvider(c) \subseteq NewSender(c)
  BY <1>1, <1>3, Zenon DEF NewSender, SendableWith
<1> QED
  BY <1>4, <1>5

\* What each constructor that has succeeded shows of the configuration.
Aborted == {"fatal", "panicked", "killed"}
BeforeHealth == {"load", "telemetry", "health"}
BeforeReader == BeforeHealth \cup {"reader"}
BeforeSender == BeforeReader \cup {"sender"} \cup (IF Agent THEN {} ELSE {"start"})

Sendable == SendableWith(cfg) /\ (Secure(cfg) => cfg.batch >= 0)

Constructed ==
  /\ pc \notin Aborted \cup BeforeHealth => cfg.auth \in AuthTypes
  /\ pc \notin Aborted \cup BeforeReader => ReadableSource
  /\ pc \notin Aborted \cup BeforeSender => Sendable
  /\ cause = "configuration" => pc = "fatal" /\ ~Startable

\* A constructor that fails for the configuration's sake is right to do so.
LEMMA BlameIsRight ==
  ASSUME Control, Loaded, pc # "load", Alive,
         HealthFails \/ ReaderFails \/ SenderFails, cause' = "configuration"
  PROVE  ~Startable
<1> SUFFICES ASSUME Startable PROVE FALSE
  BY Zenon
<1>1. Valid(cfg, os) /\ cfg = SetDefaults(cfg, os)
  BY Zenon DEF Loaded, LoadedIsFixed, LoadConfig, Alive, Ends
<1>2. HasDefaults(cfg, os, cfg)
  BY <1>1, DefaultFields, Zenon DEF Loaded
<1>3. PICK p \in NewAuthProvider(cfg) : p # Failed
  BY KnownAuth, ZenonT(40) DEF Startable, AuthTypes
<1>4. CASE HealthFails
  <2>1. \A x, y \in NewHealthServer(cfg) : x = y
    BY <1>4, Zenon DEF HealthFails, Fatal, Blame
  <2>2. Failed \in NewHealthServer(cfg)
    BY <1>4, Zenon DEF HealthFails
  <2>3. [type |-> "none"] # Failed
    BY Zenon DEF Failed
  <2> QED
    BY <1>3, <2>1, <2>2, <2>3 DEF NewHealthServer
<1>5. CASE ReaderFails
  <2>1. \A x, y \in Readers : x = y
    BY <1>5, Zenon DEF ReaderFails, Fatal, Blame
  <2>2. Readers = {"error"}
    BY <1>5, <2>1, Zenon DEF ReaderFails
  <2> QED
    BY <1>1, <2>2, ReadersReadable, Zenon DEF Startable, ReadableSource, Valid
<1>6. CASE SenderFails
  <2>1. \A x, y \in NewSender(cfg) : x = y
    BY <1>6, Zenon DEF SenderFails, Fatal, Blame
  <2>2. Failed \in NewSender(cfg)
    BY <1>6, Zenon DEF SenderFails
  <2>3. cfg.tls => cfg.min # ""
    BY <1>2, Zenon DEF HasDefaults, OrDefault
  <2>4. SendableWith(cfg) /\ ValidEncryption(cfg)
    BY <1>1, <2>3, Zenon DEF Startable, SendableWith, Valid
  <2>5. p \in NewSender(cfg)
    BY <1>3, <2>4, NewSenderOutcomes
  <2> QED
    BY <1>3, <2>1, <2>2, <2>5, Zenon
<1> QED
  BY <1>4, <1>5, <1>6

\* A program serves only with a startable configuration, and a fatal error is
\* blamed on the configuration only if it is not: StartsWhenStartable, for
\* every configuration.
THEOREM StartsWhenStartableInvariant == Spec => []StartsWhenStartable
<1>1. Init => Constructed
  <2> SUFFICES ASSUME Init PROVE Constructed
    OBVIOUS
  <2>1. pc = "load" /\ cause = ""
    BY Zenon DEF Init
  <2> QED
    BY <2>1, Zenon DEF Constructed, BeforeHealth, BeforeReader, BeforeSender
<1>2. Control /\ Loaded /\ Constructed /\ [Next]_vars => Constructed'
  <2> SUFFICES ASSUME Control, Loaded, Constructed, [Next]_vars PROVE Constructed'
    OBVIOUS
  <2>1. Frame /\ Move
    BY NextFrame, NextMove, Zenon
  <2>2. UNCHANGED <<program, os>> /\ (Load => pc = "load" /\ pc' = "telemetry")
    BY <2>1, Zenon DEF Frame, Load, Main, AgentAfter, CmdAfter
  <2>3. pc' # "telemetry" => cfg' = cfg
    BY <2>1, <2>2, Zenon DEF Frame
  <2>4. (pc \notin Aborted \cup BeforeHealth => cfg.auth \in AuthTypes)'
    <3>1. StartHealth => cfg.auth \in AuthTypes
      BY KnownAuth, Zenon DEF StartHealth, NewHealthServer, AuthTypes
    <3>2. pc' \notin Aborted \cup BeforeHealth =>
            (StartHealth \/ pc \notin Aborted \cup BeforeHealth)
      BY <2>1, <2>2, Zenon DEF Move, vars, Aborted, BeforeHealth, AgentWalk, CmdWalk,
                        Control, Locations, Alive, Ends
    <3> QED
      BY <2>3, <3>1, <3>2, Zenon DEF Constructed, Aborted, BeforeHealth
  <2>5. (pc \notin Aborted \cup BeforeReader => ReadableSource)'
    <3>1. MakeReader => ReadableSource
      BY ReadersReadable, Zenon DEF MakeReader
    <3>2. pc' \notin Aborted \cup BeforeReader =>
            (MakeReader \/ pc \notin Aborted \cup BeforeReader)
      BY <2>1, <2>2, Zenon DEF Move, vars, Aborted, BeforeHealth, BeforeReader, AgentWalk,
                        CmdWalk, Control, Locations, Alive, Ends
    <3> QED
      BY <2>2, <2>3, <3>1, <3>2, Zenon DEF Constructed, Aborted, BeforeHealth, BeforeReader,
                                    ReadableSource, Agent
  <2>6. (pc \notin Aborted \cup BeforeSender => Sendable)'
    <3>1. MakeSender => Sendable
      <4>1. MakeSender => SendableWith(cfg) /\ ~SenderPanics(cfg)
        BY NewSenderOutcomes, Zenon DEF MakeSender
      <4>2. cfg.batch \in Int
        BY Zenon DEF Loaded, ConfigRecord
      <4> QED
        BY <4>1, <4>2 DEF Sendable, SenderPanics
    <3>2. pc' \notin Aborted \cup BeforeSender' =>
            (MakeSender \/ pc \notin Aborted \cup BeforeSender)
      BY <2>1, <2>2, Zenon DEF Move, vars, Aborted, BeforeHealth, BeforeReader, BeforeSender,
                        AgentWalk, CmdWalk, Agent, Control, Locations, Alive, Ends
    <3> QED
      BY <2>2, <2>3, <3>1, <3>2, Zenon DEF Constructed, Sendable, Aborted, BeforeHealth,
                                    BeforeReader, BeforeSender, Agent
  <2>7. (cause = "configuration" => pc = "fatal" /\ ~Startable)'
    <3>1. CASE cause = "configuration"
      BY <2>1, <2>2, <3>1, ZenonT(40) DEF Constructed, Move, vars, Alive, Ends, Startable, Agent
    <3>2. CASE cause # "configuration" /\ cause' = "configuration"
      <4>1. HealthFails \/ ReaderFails \/ SenderFails
        BY <2>1, <3>2 DEF Frame
      <4>2. Alive /\ pc # "load" /\ pc' = "fatal" /\ cfg' = cfg
        BY <4>1, Zenon DEF HealthFails, ReaderFails, SenderFails, Fatal, Alive, Ends
      <4> QED
        BY <2>2, <3>2, <4>1, <4>2, BlameIsRight, ZenonT(40) DEF Startable, Agent
    <3> QED
      BY <3>1, <3>2, Zenon
  <2> QED
    BY <2>4, <2>5, <2>6, <2>7, Zenon DEF Constructed
<1>3. Constructed => StartsWhenStartable
  BY Zenon DEF Constructed, StartsWhenStartable, Startable, Aborted, BeforeHealth, BeforeReader,
         BeforeSender, ReadableSource, Sendable, SendableWith, AuthTypes
<1> QED
  BY <1>1, <1>2, <1>3, ControlInvariant, LoadedInvariant, PTL DEF Spec

-----------------------------------------------------------------------------
\* The spans and the providers: while main goes on no provider is shut down,
\* but the manager's when only the cleanup is left.
Providers ==
  /\ made \subseteq {"setup", "manager"}
  /\ tracer = "real" <=> "manager" \in made
  /\ Alive => live = made \ (IF Agent /\ pc = "cleanup" THEN {"manager"} ELSE {})
  /\ live \subseteq made
  /\ Agent /\ pc \in {"flush", "cleanup"} /\ pipeline = "running" => expired

\* What may become of a span.
SpanStates == {"none", "open", "batched", "exported", "lost"}

\* What is known of the spans: who holds the batched ones, and which are lost.
Recorded ==
  /\ spans \in [Spans -> SpanStates]
  /\ pc \in {"load", "telemetry", "health"} => \A s \in Spans : spans[s] = "none"
  /\ \A s \in Spans :
       /\ spans[s] = "open" => s = "init"
       /\ spans[s] = "batched" => Home(s) \in live \/ (Agent /\ expired)
       /\ spans[s] = "lost" => s \in {"init", "post"} \/ expired
  /\ pc = "exited" =>
       \A s \in Spans : spans[s] = "batched" => IF Agent THEN expired ELSE Home(s) = "manager"

\* Providers and Recorded hold at first.
LEMMA ProvidersInit == Init => Providers /\ Recorded
<1> SUFFICES ASSUME Init PROVE Providers /\ Recorded
  BY Zenon
<1>1. /\ pc = "load" /\ made = {} /\ live = {} /\ tracer = "nil"
      /\ spans = [s \in Spans |-> "none"]
  BY Zenon DEF Init
<1> QED
  BY <1>1 DEF Providers, Recorded, SpanStates

\* Every step keeps Providers.
LEMMA ProvidersNext == Control /\ Providers /\ [Next]_vars => Providers'
<1> SUFFICES ASSUME Control, Providers, [Next]_vars PROVE Providers'
  OBVIOUS
<1>1. Frame /\ Move
  BY NextFrame, NextMove
<1>2. program' = program
  BY <1>1 DEF Frame
<1>3. CASE StartTelemetry
  <2>1. /\ pc = "telemetry" /\ pc' = "health" /\ live' = made'
        /\ \E s \in Setup : made' = s \cup (IF tracer' = "real" THEN {"manager"} ELSE {})
    BY <1>3, Zenon DEF StartTelemetry, Main, AgentAfter, CmdAfter
  <2> QED
    BY <2>1, Zenon DEF Providers, Setup, Alive, Ends
<1>4. CASE Flush
  BY <1>1, <1>2, <1>4, Zenon DEF Flush, Main, AgentAfter, CmdAfter, Control, Providers, Agent,
                           parts, sig, Alive, Ends
<1>5. CASE Cleanup
  BY <1>1, <1>2, <1>5, Zenon DEF Cleanup, Main, AgentAfter, CmdAfter, Providers, Agent, Alive, Ends
<1>6. CASE ~StartTelemetry /\ ~Flush /\ ~Cleanup
  <2>1. UNCHANGED <<tracer, made, live>>
    BY <1>1, <1>6, Zenon DEF Frame
  <2>2. Alive' => Alive /\ (Agent => (pc = "cleanup" <=> pc' = "cleanup"))
    BY <1>1, <1>6, Zenon DEF Move, vars, AgentWalk, Control, Locations, Alive, Ends
  <2>3. (Agent /\ pc \in {"flush", "cleanup"} /\ pipeline = "running" => expired)'
    <3>1. CASE pc' = pc
      <4>1. pc \in {"flush", "cleanup"} => ~StartReader /\ ~MakeSender
        BY Zenon DEF StartReader, MakeSender, Main
      <4> QED
        BY <1>1, <1>2, <3>1, <4>1, Zenon DEF Frame, Providers, Agent
    <3>2. CASE pc' # pc /\ pc' \in {"flush", "cleanup"} /\ Agent
      <4>1. Join \/ JoinTimeout
        BY <1>1, <1>6, <3>2, Zenon DEF Move, AgentWalk, Control, Locations, Alive, Ends
      <4> QED
        BY <4>1 DEF Join, JoinTimeout, parts, sig
    <3> QED
      BY <1>2, <3>1, <3>2, Zenon DEF Agent
  <2> QED
    BY <1>2, <2>1, <2>2, <2>3, Zenon DEF Providers, Agent
<1> QED
  BY <1>3, <1>4, <1>5, <1>6, Zenon

\* What Ended says of a span.
LEMMA EndedSpan ==
  ASSUME NEW s \in Spans
  PROVE  /\ Ended(s) \in {"none", "batched", "lost"}
         /\ Ended(s) = "batched" => Home(s) \in live
         /\ Ended(s) = "lost" => Home(s) \notin live /\ Home(s) # "none"
  BY DEF Ended

\* A span stays with its provider while the telemetry does not change.
LEMMA SameHome ==
  ASSUME UNCHANGED <<program, manager, tracer, made>>, NEW s
  PROVE  Home(s)' = Home(s)
  BY Zenon DEF Home, Global, Agent

\* The steps that change one span and nothing else of the telemetry.
LEMMA OneSpan ==
  ASSUME Recorded, UNCHANGED <<program, live, expired>>, \A s : Home(s)' = Home(s),
         pc' \notin {"load", "telemetry", "health", "exited"},
         NEW t \in Spans, NEW v \in SpanStates \ {"open"}, spans' = [spans EXCEPT ![t] = v],
         v = "batched" => Home(t) \in live,
         v = "lost" => t \in {"init", "post"} \/ expired
  PROVE  Recorded'
<1>1. spans' \in [Spans -> SpanStates]
  BY Zenon DEF Recorded
<1>2. \A s \in Spans : spans'[s] = IF s = t THEN v ELSE spans[s]
  BY Zenon DEF Recorded
<1> QED
  BY <1>1, <1>2, Zenon DEF Recorded, Agent

\* Every step keeps Recorded.
LEMMA RecordedNext == Control /\ Providers /\ Recorded /\ [Next]_vars => Recorded'
<1> SUFFICES ASSUME Control, Providers, Recorded, [Next]_vars PROVE Recorded'
  OBVIOUS
<1>1. Frame /\ Move
  BY NextFrame, NextMove
<1>2. program' = program /\ (expired => expired')
  BY <1>1, Zenon DEF Frame
<1>3. CASE StartTelemetry
  <2>1. pc = "telemetry" /\ pc' = "health" /\ UNCHANGED spans
    BY <1>3, Zenon DEF StartTelemetry, Main, AgentAfter, CmdAfter
  <2> QED
    BY <2>1, Zenon DEF Recorded
<1>4. ASSUME ~StartTelemetry PROVE \A s : Home(s)' = Home(s)
  BY <1>1, <1>4, SameHome, Zenon DEF Frame
<1>5. CASE StartHealth
  <2>1. /\ pc = "health" /\ pc' = "reader"
        /\ spans' = [spans EXCEPT !["init"] = IF Agent /\ manager /\ Global # "none"
                                             THEN "open" ELSE "none"]
    BY <1>5, Zenon DEF StartHealth, Main, AgentAfter, CmdAfter
  <2> QED
    BY <2>1, Zenon DEF Recorded, SpanStates, Spans
<1>6. CASE Flush
  <2>1. /\ pc = "flush" /\ Agent /\ pc' = "cleanup" /\ expired' = expired
        /\ live' = live \ {"manager"} /\ ~StartTelemetry
    BY <1>6, Zenon DEF Flush, Main, AgentAfter, Control, StartTelemetry, sig
  <2>2. PICK inTime \in {TRUE, ~expired} :
          spans' = [s \in Spans |-> IF spans[s] = "batched" /\ Home(s) = "manager" /\ inTime
                                    THEN "exported" ELSE spans[s]]
    BY <1>6, Zenon DEF Flush
  <2>3. expired \/ inTime
    BY Zenon
  <2>4. spans' \in [Spans -> SpanStates]
    BY <2>2, Zenon DEF Recorded, SpanStates
  <2>5. \A s \in Spans : \/ spans'[s] = "exported"
                         \/ /\ spans'[s] = spans[s]
                            /\ spans[s] = "batched" => Home(s) # "manager" \/ expired
    BY <2>2, <2>3, Zenon
  <2> QED
    BY <1>2, <1>4, <2>1, <2>4, <2>5, Zenon DEF Recorded, Agent
<1>7. CASE Cleanup
  <2>1. /\ pc = "cleanup" /\ pc' = "exited" /\ expired' = expired
        /\ live' = live \ {"setup"} /\ ~StartTelemetry
    BY <1>7 DEF Cleanup, Main, AgentAfter, CmdAfter, StartTelemetry, sig
  <2>2. \A s \in Spans : spans'[s] = IF spans[s] = "batched" /\ Home(s) = "setup" THEN "exported"
                                     ELSE IF spans[s] = "open" THEN "lost" ELSE spans[s]
    BY <1>7, Zenon DEF Cleanup
  <2>3. spans' \in [Spans -> SpanStates]
    BY <1>7 DEF Cleanup, Recorded, SpanStates
  <2>4. live \subseteq IF Agent THEN {"setup"} ELSE {"setup", "manager"}
    BY <2>1 DEF Providers, Alive, Ends
  <2> QED
    BY <1>2, <1>4, <2>1, <2>2, <2>3, <2>4, ZenonT(40) DEF Recorded, SpanStates, Agent
<1>8. Alive => pc # "exited"
  BY DEF Alive, Ends
<1>9. pipeline # "none" => pc \notin {"load", "telemetry", "health"}
  BY DEF Control, Before
<1>10. CASE Alive /\ Export
  <2>1. PICK s \in Spans : spans[s] = "batched" /\ spans' = [spans EXCEPT ![s] = "exported"]
    BY <1>10, Zenon DEF Export
  <2>2. UNCHANGED <<program, pc, live, expired, manager, tracer, made>>
    BY <1>10 DEF Export, sig
  <2>3. pc' \notin {"load", "telemetry", "health", "exited"}
    BY <1>8, <1>10, <2>1, <2>2 DEF Recorded
  <2> QED
    BY <2>1, <2>2, <2>3, SameHome, OneSpan, Zenon DEF SpanStates
<1>11. CASE Alive /\ TakeLine /\ spans' # spans
  <2>1. /\ UNCHANGED <<program, live, expired, manager, tracer, made>> /\ pipeline = "running"
        /\ pc' = pc \/ pc' = "panicked"
    BY <1>11 DEF TakeLine, sig
  <2>2. pc' \notin {"load", "telemetry", "health", "exited"}
    BY <1>8, <1>9, <1>11, <2>1
  <2>3. spans' = [spans EXCEPT !["line"] = Ended("line")]
    BY <1>11 DEF TakeLine, Recorded, Spans
  <2>4. Ended("line") = "lost" => expired
    <3>1. Home("line") = IF Agent /\ tracer = "real" THEN "manager" ELSE "none"
      BY Zenon DEF Home
    <3> QED
      BY <1>11, <2>1, <3>1, EndedSpan DEF Providers, Spans
  <2> QED
    BY <2>1, <2>2, <2>3, <2>4, EndedSpan, SameHome, OneSpan, Zenon DEF SpanStates, Spans
<1>12. CASE Alive /\ Post
  <2>1. /\ UNCHANGED <<program, pc, live, expired, manager, tracer, made>> /\ taken > 0
        /\ spans' = [spans EXCEPT !["post"] = Ended("post")]
    BY <1>12 DEF Post, sig
  <2>2. pc' \notin {"load", "telemetry", "health", "exited"}
    BY <1>8, <1>9, <1>12, <2>1 DEF Control
  <2> QED
    BY <2>1, <2>2, EndedSpan, SameHome, OneSpan, Zenon DEF SpanStates, Spans
<1>13. CASE ~StartTelemetry /\ ~StartHealth /\ ~Flush /\ ~Cleanup /\ UNCHANGED spans
  <2>1. UNCHANGED live /\ \A s : Home(s)' = Home(s)
    BY <1>1, <1>4, <1>13 DEF Frame
  <2>2. /\ pc' \in {"load", "telemetry", "health"} => pc \in {"load", "telemetry", "health"}
        /\ pc' = "exited" => pc = "exited"
    BY <1>1, <1>13, Zenon DEF Move, vars, AgentWalk, CmdWalk, Control, Locations, Alive, Ends
  <2> QED
    BY <1>2, <1>13, <2>1, <2>2 DEF Recorded, Agent
<1>14. Alive \/ UNCHANGED spans
  BY DEF Next, vars, tel
<1> QED
  BY <1>1, <1>3, <1>5, <1>6, <1>7, <1>10, <1>11, <1>12, <1>13, <1>14, Zenon DEF Frame

\* The end of the process exports every span that could be: EndExportsSpans,
\* for every configuration and any number of lines.
THEOREM EndExportsSpansInvariant == Spec => []EndExportsSpans
<1>1. Providers /\ Recorded => EndExportsSpans
  BY DEF Recorded, EndExportsSpans
<1> QED
  BY <1>1, ProvidersInit, ProvidersNext, RecordedNext, ControlInvariant, PTL DEF Spec
=============================================================================
