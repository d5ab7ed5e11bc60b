------------------------------ MODULE Security ------------------------------
(***************************************************************************)
(* pkg/security: the authentication providers with both their sides,       *)
(* AddAuthentication of the sender and Authenticate of the health server,  *)
(* and the constructors of the providers, of the TLS configuration and of  *)
(* the encryption.  What depends on a file, an environment variable or a   *)
(* server is a set of outcomes.  Providers are records; their type is      *)
(* "error" where the constructor fails.                                    *)
(***************************************************************************)
EXTENDS Config

CONSTANTS Tokens   \* what the token file may hold, trimmed; "" if it is blank
ASSUME TokensAssumption == Tokens # {}

Failed == [type |-> "error"]

\* The credentials of a request: the scheme and the rest of the Authorization
\* header, and the other headers.
NoCredentials == [scheme |-> "", rest |-> <<>>, headers |-> {}]

-----------------------------------------------------------------------------
\* A provider for c, in a file system where the token file can be read or not.
NewAuthProvider(c) ==
  CASE c.auth = "none"   -> {[type |-> "none"]}
    [] c.auth = "basic"  -> {[type |-> "basic", user |-> c.user, password |-> c.password]}
    [] c.auth = "token"  -> {[type |-> "token", token |-> t] : t \in Tokens} \cup {Failed}
    [] c.auth = "oauth2" -> {[type |-> "oauth2"]}
    [] c.auth = "header" -> {[type |-> "header", headers |-> c.headers]}
    [] OTHER             -> {Failed}

\* The headers AddAuthentication sets.  An OAuth2 provider adds the token it
\* gets from the token server.
AddAuthentication(p) ==
  CASE p.type = "basic" ->
         [NoCredentials EXCEPT !.scheme = "Basic", !.rest = p.user \o <<":">> \o p.password]
    [] p.type = "token" ->
         \* a header value loses its trailing space on the way
         IF p.token = "" THEN NoCredentials
         ELSE [NoCredentials EXCEPT !.scheme = "Bearer", !.rest = <<p.token>>]
    [] p.type = "oauth2" -> [NoCredentials EXCEPT !.scheme = "Bearer", !.rest = <<"oauth2">>]
    [] p.type = "header" -> [NoCredentials EXCEPT !.headers = p.headers]
    [] OTHER -> NoCredentials

\* Mutant: the payload is split at the last colon.
MBasicMatches(p, payload) ==
  \E i \in DOMAIN payload :
    /\ payload[i] = ":"
    /\ \A j \in (i + 1)..Len(payload) : payload[j] # ":"
    /\ SubSeq(payload, 1, i - 1) = p.user
    /\ SubSeq(payload, i + 1, Len(payload)) = p.password

\* strings.SplitN(payload, ":", 2), at the first colon, against the user and
\* the password.
BasicMatches(p, payload) ==
  \E i \in DOMAIN payload :
    /\ payload[i] = ":"
    /\ \A j \in 1..(i - 1) : payload[j] # ":"
    /\ SubSeq(payload, 1, i - 1) = p.user
    /\ SubSeq(payload, i + 1, Len(payload)) = p.password

\* The answer of Authenticate: yes, no or an error.
Authenticate(p, req) ==
  CASE p.type = "basic" -> IF req.scheme = "Basic" /\ BasicMatches(p, req.rest) THEN "yes" ELSE "no"
    [] p.type = "token" -> IF req.scheme = "Bearer" /\ req.rest = <<p.token>> THEN "yes" ELSE "no"
    [] p.type = "oauth2" -> "error"
    [] p.type = "header" -> IF p.headers \subseteq req.headers THEN "yes" ELSE "no"

-----------------------------------------------------------------------------
\* CreateTLSConfig: known versions (in any case), and files that can be read.
TLSVersions == {"tls10", "tls11", "tls12", "tls13", "TLS12"}

CreateTLSConfig(c) ==
  CASE ~c.tls -> {"ok"}
    [] c.tls /\ (c.min \notin TLSVersions \/ c.max \notin TLSVersions \cup {""}) -> {"error"}
    [] OTHER -> {"ok"} \cup (IF \/ "ca_file" \in c.given
                                \/ {"cert_file", "key_file"} \subseteq c.given
                             THEN {"error"} ELSE {})

\* loadKey and NewEncryptionProvider: the key is read from a file or, in
\* hexadecimal, from the environment; it may be missing, malformed or of a
\* length other than 32 bytes.
NewEncryptionProvider(c) ==
  CASE ~c.encryption -> {"ok"}
    [] c.encryption /\ c.cipher \in {"aes", "chacha20poly1305"}
         /\ {"encryption.key_file", "key_env"} \cap c.given # {} -> {"ok", "error"}
    [] OTHER -> {"error"}

-----------------------------------------------------------------------------
\* The choice between NewHTTPSender and NewSecureHTTPSender.  The latter makes
\* its batch first, and a negative capacity panics; the former corrects it.
Secure(c) == c.tls \/ c.auth # "none" \/ c.encryption

\* Mutant: the batch size is not corrected for the plain sender either.
MSenderPanics(c) == c.batch < 0

SenderPanics(c) == Secure(c) /\ c.batch < 0

\* The authentication provider of the sender that is made, or an error.
NewSender(c) ==
  (IF "ok" \in CreateTLSConfig(c) \cap NewEncryptionProvider(c)
   THEN NewAuthProvider(c) ELSE {})
  \cup
  (IF "error" \in CreateTLSConfig(c) \cup NewEncryptionProvider(c) THEN {Failed} ELSE {})
=============================================================================
