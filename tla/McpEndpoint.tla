---------------------------- MODULE McpEndpoint ----------------------------
(***************************************************************************)
(* POST /mcp: the credential check of src/http/mcp-auth.ts, with its lazy  *)
(* discovery of the AuthKit issuer, and the life of the server instance    *)
(* that src/http/mcp.ts builds for every request.                          *)
(*                                                                         *)
(* The transport, as the code uses it: handleRequest may reject, may       *)
(* resolve before the response is closed, and, as a client may hang up     *)
(* while a tool still runs, may resolve only after.  AuthKit's metadata    *)
(* is one document that during an outage is unreachable, or comes without  *)
(* a usable jwks_uri, its issuer right or missing; that the outage ends is *)
(* an assumption.                                                          *)
(***************************************************************************)
EXTENDS Naturals

CONSTANT Requests  \* requests to POST /mcp

\* What follows "Bearer ": nothing, the key, a JWT of the tenant, or neither.
Tokens == {"none", "key", "jwt", "junk"}

VARIABLES
  config,     \* which of MCP_API_KEY and WORKOS_AUTHKIT_DOMAIN are set
  outage,     \* AuthKit does not answer as it should
  issuer,     \* the verifier has the issuer
  jwks,       \* it has the key set
  req,        \* per request, where its handler is
  token,      \* per request, its bearer token
  open,       \* the responses that are not closed
  server,     \* per request, its McpServer and transport
  listening   \* requests whose "close" listener is registered

endpointVars == <<config, outage, issuer, jwks, req, token, open, server, listening>>

EndpointTypeOK ==
  /\ config \in [apiKey : BOOLEAN, authKit : BOOLEAN]
  /\ outage \in BOOLEAN
  /\ issuer \in BOOLEAN
  /\ jwks \in BOOLEAN
  /\ req \in [Requests -> {"new", "discovery", "verify", "handling",
                           "unauthorized", "returned", "failed"}]
  /\ token \in [Requests -> Tokens]
  /\ open \in SUBSET Requests
  /\ server \in [Requests -> {"none", "built", "closed"}]
  /\ listening \in SUBSET Requests

EndpointInit ==
  /\ config \in [apiKey : BOOLEAN, authKit : BOOLEAN]
  /\ outage \in BOOLEAN
  /\ issuer = FALSE
  /\ jwks = FALSE
  /\ req = [r \in Requests |-> "new"]
  /\ token \in [Requests -> Tokens]
  /\ open = Requests
  /\ server = [r \in Requests |-> "none"]
  /\ listening = {}

Goto(r, pc) == req' = [req EXCEPT ![r] = pc]

-----------------------------------------------------------------------------
(* mcpAuth. *)

ApiKey == config.apiKey
AuthKit == config.authKit

authless == ~ApiKey /\ ~AuthKit
matchesKey(r) == ApiKey /\ token[r] = "key"

\* next(): without another await a server and a transport are made, connect and
\* then handleRequest are awaited.
next(r) ==
  /\ server' = [server EXCEPT ![r] = "built"]
  /\ Goto(r, "handling")

reject(r) == Goto(r, "unauthorized") /\ UNCHANGED server

\* Mutated form: only the key is looked at to decide that there is no auth.
MutFirstCheck(r) ==
  \/ (~ApiKey \/ matchesKey(r)) /\ next(r)
  \/ ApiKey /\ ~matchesKey(r) /\ reject(r)

\* The part before any await.
firstCheck(r) ==
  \/ (authless \/ matchesKey(r)) /\ next(r)
  \/ /\ ~authless /\ ~matchesKey(r) /\ token[r] # "none" /\ AuthKit
     /\ Goto(r, "discovery") /\ UNCHANGED server
  \/ ~authless /\ ~matchesKey(r) /\ (token[r] = "none" \/ ~AuthKit) /\ reject(r)

RequestArrives(r) ==
  /\ req[r] = "new"
  /\ firstCheck(r)
  /\ UNCHANGED <<config, outage, issuer, jwks, token, open, listening>>

\* The discovery was answered, or failed.  What the document says of the issuer
\* replaces what was known, before the URL of the keys is parsed and may throw.
discover(r) ==
  \/ ~outage /\ Goto(r, "verify") /\ issuer' = TRUE /\ jwks' = TRUE
  \/ outage /\ Goto(r, "unauthorized") /\ issuer' \in {issuer, TRUE, FALSE} /\ UNCHANGED jwks

\* Mutated form: knowing the issuer passes for having discovered.
MutInit(r) ==
  /\ req[r] = "discovery"
  /\ IF issuer THEN Goto(r, "verify") /\ UNCHANGED <<issuer, jwks>> ELSE discover(r)
  /\ UNCHANGED <<config, outage, token, open, server, listening>>

\* AuthkitVerifier.init.  A request that was already fetching when another one
\* finished goes on with its own answer.
init(r) ==
  /\ req[r] = "discovery"
  /\ \/ jwks /\ Goto(r, "verify") /\ UNCHANGED <<issuer, jwks>>
     \/ discover(r)
  /\ UNCHANGED <<config, outage, token, open, server, listening>>

\* jwtVerify, which during an outage may have the keys or fail to fetch them.
\* The tenant's keys sign for its one issuer, so that not knowing the issuer
\* turns nothing away.
verify(r) ==
  /\ req[r] = "verify"
  /\ \/ token[r] = "jwt" /\ jwks /\ next(r)
     \/ (token[r] # "jwt" \/ ~jwks \/ outage) /\ reject(r)
  /\ UNCHANGED <<config, outage, issuer, jwks, token, open, listening>>

-----------------------------------------------------------------------------
(* The rest of the handler of POST /mcp. *)

\* Mutated form: nothing catches the rejection.
MutHandlerFails(r) ==
  /\ req[r] = "handling"
  /\ Goto(r, "uncaught")
  /\ UNCHANGED <<config, outage, issuer, jwks, token, open, server, listening>>

\* connect or handleRequest rejects: the catch block answers 500.
HandlerFails(r) ==
  /\ req[r] = "handling"
  /\ Goto(r, "failed")
  /\ UNCHANGED <<config, outage, issuer, jwks, token, open, server, listening>>

\* A listener for "close" added after the response has closed is never called.
HandleRequestReturns(r) ==
  /\ req[r] = "handling"
  /\ Goto(r, "returned")
  /\ listening' = listening \cup ({r} \cap open)
  /\ UNCHANGED <<config, outage, issuer, jwks, token, open, server>>

\* Mutated form: the listener closes nothing.
MutResponseCloses(r) ==
  /\ r \in open
  /\ req[r] # "new"
  /\ open' = open \ {r}
  /\ UNCHANGED <<config, outage, issuer, jwks, req, token, server, listening>>

\* The response was sent, or the client hung up.
ResponseCloses(r) ==
  /\ r \in open
  /\ req[r] # "new"
  /\ open' = open \ {r}
  /\ server' = IF r \in listening THEN [server EXCEPT ![r] = "closed"] ELSE server
  /\ UNCHANGED <<config, outage, issuer, jwks, req, token, listening>>

OutageEnds ==
  /\ outage
  /\ outage' = FALSE
  /\ UNCHANGED <<config, issuer, jwks, req, token, open, server, listening>>

EndpointNext ==
  \/ \E r \in Requests :
       \/ RequestArrives(r) \/ init(r) \/ verify(r)
       \/ HandlerFails(r) \/ HandleRequestReturns(r)
       \/ ResponseCloses(r)
  \/ OutageEnds

\* Every await is answered in the end and every response closes; requests
\* need not arrive.
Fairness ==
  \A r \in Requests :
    /\ WF_endpointVars(init(r)) /\ WF_endpointVars(verify(r))
    /\ WF_endpointVars(HandlerFails(r) \/ HandleRequestReturns(r))
    /\ WF_endpointVars(req[r] \in {"unauthorized", "returned", "failed"} /\ ResponseCloses(r))

EndpointSpec == EndpointInit /\ [][EndpointNext]_endpointVars /\ Fairness

-----------------------------------------------------------------------------
\* "The auth middleware accepts either credential": no server is built for a
\* request without one, however its check interleaves with a discovery that
\* another request started, unless no credential is configured at all.
AdmittedWithCredential ==
  \A r \in Requests :
    server[r] # "none" =>
      authless \/ matchesKey(r) \/ (AuthKit /\ token[r] = "jwt")

\* "Discover issuer + JWKS lazily so startup doesn't depend on WorkOS": once an
\* outage is over it leaves no trace, and a request with a valid JWT is served
\* although discoveries before it failed.
ServedAfterOutage ==
  \A r \in Requests :
    (req[r] = "discovery" /\ token[r] = "jwt" /\ ~outage) ~> server[r] # "none"

\* An instance is torn down when its response closes, if the response was still
\* open when handleRequest returned.
TornDownWhenListening ==
  \A r \in Requests : r \in listening ~> server[r] = "closed"

\* The README: "Each request builds and tears down a server instance".
TornDown == \A r \in Requests : server[r] = "built" ~> server[r] = "closed"

=============================================================================
