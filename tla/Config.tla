------------------------------- MODULE Config -------------------------------
(***************************************************************************)
(* The configuration of an agent: LoadConfig of pkg/config/config.go, and  *)
(* the reader factory of pkg/reader/reader_factory.go that it feeds.       *)
(* A configuration is the record of the values that some code tells apart; *)
(* `given' holds the YAML keys, of those whose value no code looks at,     *)
(* that have a non-empty value.  An absent string is "".                   *)
(***************************************************************************)
EXTENDS Integers, Sequences

CONSTANTS Texts   \* the strings of a configuration

OSes == {"linux", "windows", "darwin"}
SourceTypes == {"file", "container", "pod", "windows_event", "macos_asl"}

TLSKeys == {"cert_file", "key_file", "ca_file"}
EncryptionKeys == {"encryption.key_file", "key_env", "key_id"}
WindowsKeys == {"windows_event_log_name", "windows_event_log_level"}
TelemetryKeys == {"service_name", "service_version", "exporter_endpoint",
                  "sampling_rate", "attributes"}
OtherKeys == {"namespace", "pod_name", "container_name", "pod_selector",
              "token_file", "client_id", "client_secret", "token_url"}
Keys == TLSKeys \cup EncryptionKeys \cup WindowsKeys \cup TelemetryKeys \cup OtherKeys

ConfigRecord ==
  [source : Texts, path : Texts, server : Texts, batch : Int, flush : Int,
   telemetry : BOOLEAN, exporter : Texts, tls : BOOLEAN, min : Texts, max : Texts,
   auth : Texts, user : Seq(Texts), password : Seq(Texts), headers : SUBSET Texts,
   encryption : BOOLEAN, cipher : Texts, given : SUBSET Keys]

-----------------------------------------------------------------------------
\* getDefaultLogSourceType and getDefaultLogPath.
DefaultSource(os) ==
  CASE os = "windows" -> "windows_event"
    [] os = "darwin"  -> "macos_asl"
    [] OTHER          -> "file"

DefaultLogPath(os) ==
  CASE os = "windows" -> "SYSTEMROOT/Logs/Application.log"
    [] os = "darwin"  -> "/var/log/system.log"
    [] OTHER          -> "/var/log/syslog"

\* The one path with the prefix ${OS_DEFAULT} that is told apart, and the same
\* file in the directory of the default path.
PrefixedPath == "${OS_DEFAULT}/app.log"
BesideDefault(os) == IF os = "windows" THEN "SYSTEMROOT/Logs/app.log" ELSE "/var/log/app.log"

LogPath(path, os) ==
  CASE path = ""           -> DefaultLogPath(os)
    [] path = PrefixedPath -> BesideDefault(os)
    [] OTHER               -> path

\* The strings the defaults are made of.
DefaultTexts ==
  {"", "http", "tls12", "none", "aes"}
  \cup UNION {{DefaultSource(os), DefaultLogPath(os), BesideDefault(os)} : os \in OSes}

ASSUME TextsAssumption == DefaultTexts \subseteq Texts

OrDefault(x, none, d) == IF x = none THEN d ELSE x

\* Mutant: the defaults of a source are set before the default source.
MSetDefaults(c, os) ==
  [c EXCEPT
     !.batch    = OrDefault(@, 0, 10),
     !.flush    = OrDefault(@, 0, 5),
     !.source   = OrDefault(@, "", DefaultSource(os)),
     !.exporter = "http",
     !.min      = OrDefault(@, "", "tls12"),
     !.auth     = OrDefault(@, "", "none"),
     !.cipher   = OrDefault(@, "", "aes"),
     !.path     = IF c.source = "file" THEN LogPath(@, os) ELSE @,
     !.given    = @ \cup (IF c.source = "windows_event" THEN WindowsKeys ELSE {})
                    \cup TelemetryKeys]

\* The defaults, section by section.  A section that is not enabled is
\* replaced by its default as a whole.
SetDefaults(c, os) ==
  LET source == OrDefault(c.source, "", DefaultSource(os))
  IN [c EXCEPT
        !.batch    = OrDefault(@, 0, 10),
        !.flush    = OrDefault(@, 0, 5),
        !.source   = source,
        !.exporter = IF c.telemetry THEN OrDefault(@, "", "http") ELSE "http",
        !.min      = IF c.tls THEN OrDefault(@, "", "tls12") ELSE "tls12",
        !.max      = IF c.tls THEN @ ELSE "",
        !.auth     = OrDefault(@, "", "none"),
        !.cipher   = IF c.encryption THEN OrDefault(@, "", "aes") ELSE "aes",
        !.path     = IF source = "file" THEN LogPath(@, os) ELSE @,
        !.given    = ((@ \ (IF c.tls THEN {} ELSE TLSKeys))
                         \ (IF c.encryption THEN {} ELSE EncryptionKeys))
                     \cup (IF source = "windows_event" THEN WindowsKeys ELSE {})
                     \cup TelemetryKeys]

\* The validation, in the order of the code.
ValidSource(c, os) ==
  /\ c.source = "file" => c.path # ""
  /\ c.source = "container" => {"namespace", "pod_name", "container_name"} \subseteq c.given
  /\ c.source = "pod" => "pod_selector" \in c.given
  /\ c.source = "windows_event" => os = "windows"
  /\ c.source = "macos_asl" => os = "darwin"

ValidTLS(c) ==
  c.tls =>
    /\ "cert_file" \in c.given \/ c.server # "https"
    /\ "cert_file" \in c.given => "key_file" \in c.given

ValidAuth(c) ==
  /\ c.auth = "basic" => c.user # <<>> /\ c.password # <<>>
  /\ c.auth = "token" => "token_file" \in c.given
  /\ c.auth = "oauth2" => {"client_id", "client_secret", "token_url"} \subseteq c.given

ValidEncryption(c) ==
  c.encryption => {"encryption.key_file", "key_env"} \cap c.given # {}

Valid(c, os) ==
  ValidSource(c, os) /\ ValidTLS(c) /\ ValidAuth(c) /\ ValidEncryption(c) /\ c.server # ""

\* What LoadConfig returns for a file that is read and parsed: the set of the
\* one configuration, or the empty set for an error.
LoadConfig(c, os) == {d \in {SetDefaults(c, os)} : Valid(d, os)}

-----------------------------------------------------------------------------
\* ParseSourceType: any case is accepted, and some aliases.  "File" and
\* "Container" stand for the spellings with capitals.
ToLower(s) ==
  CASE s = "File" -> "file" [] s = "Container" -> "container" [] OTHER -> s

ParseSourceType(s) ==
  CASE ToLower(s) \in {"windows_event", "windows", "event"} -> "windows_event"
    [] ToLower(s) \in {"macos_asl", "macos", "asl"}         -> "macos_asl"
    [] ToLower(s) \in {"file", "container", "pod"}          -> ToLower(s)
    [] OTHER                                                -> "error"

\* Mutant: the platform is not looked at.
MNewReader(type, c, os) ==
  CASE type = "file" /\ c.path # "" -> {"file"}
    [] type = "container" -> {"container", "error"}
    [] type = "windows_event" -> {"windows"}
    [] type = "macos_asl" -> {"macos"}
    [] OTHER -> {"error"}

\* What NewReader may return: a kind of reader or an error.  A container
\* reader needs the configuration of the cluster the process runs in.
NewReader(type, c, os) ==
  CASE type = "file" /\ c.path # "" -> {"file"}
    [] type = "container" /\ {"namespace", "pod_name", "container_name"} \subseteq c.given
         -> {"container", "error"}
    [] type = "windows_event" /\ os = "windows" -> {"windows"}
    [] type = "macos_asl" /\ os = "darwin" -> {"macos"}
    [] OTHER -> {"error"}
=============================================================================
