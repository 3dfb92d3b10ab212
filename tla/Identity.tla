------------------------------ MODULE Identity ------------------------------
(***************************************************************************)
(* Who a request acts as: the configuration a server accepts, the identity *)
(* middleware, auth.Resolver over its two verified sources, and the token  *)
(* handlers, which make the credentials of later requests.  One request is *)
(* followed at a time; tokens are minted and revoked, the token store may  *)
(* be down, the proxy's keys may be out of reach or change, and the server *)
(* is deployed again with another mode.                                    *)
(***************************************************************************)
EXTENDS Auth, Naturals

CONSTANT Malformed   \* what is no address

ASSUME IdentityAssumption ==
    /\ {None, Malformed} \cap Users = {}
    /\ None \notin {"missing", "invalid", "unavailable", "400", "401", "503", "proxy_jwt"}

\* What a client may send as its address: any spelling, or something that is none.
Spelled == [user: Users, lower: BOOLEAN]
Sent    == Spelled \cup {Malformed, None}

Config ==
    [mode: {"off", "shadow", "enforce"}, on: {"writes", "all"},
     team: BOOLEAN, audience: BOOLEAN, tokens: BOOLEAN]

\* bearer: a token and whose it is, one never minted, one cut short, or no trv_ token at
\* all.  jwt: a signed assertion, one that does not verify, or one without an address.
Incoming ==
    [op: {"read", "write", "mint", "revoke"}, header: Sent, cookie: Sent,
     bearer: Users \cup {"unknown", "malformed", None}, jwt: Users \cup {"bad", "noemail", None}]

Principal == [email: Users \cup {None}, source: {"asserted", "token", "proxy_jwt", None}]

Nobody == [email |-> None, source |-> None]

\* status: how the middleware answers; "next" is the handler's turn.
Decision ==
    [status: {"next", "400", "401", "503"}, acts: Principal, proven: Principal,
     header: Sent,
     live: SUBSET Users, down: BOOLEAN, keys: BOOLEAN]
           \* history: the tokens, the store and the keys when the decision fell

VARIABLES
    config,  \* of the server that runs, or the one that was refused
    runs,    \* whether it started
    keys,    \* whether it holds the key that the proxy signs assertions with
    live,    \* owners of a token that is not revoked
    incoming,     \* the request, or None
    answer   \* the decision on it, or None

identityVars == <<config, runs, keys, live, incoming, answer>>

IdentityTypeOK ==
    /\ config \in Config /\ runs \in BOOLEAN /\ keys \in BOOLEAN
    /\ live \in SUBSET Users
    /\ incoming \in Incoming \cup {None}
    /\ answer \in Decision \cup {None}

-----------------------------------------------------------------------------
(* Configuration: Auth.validate, and then NewResolver with its sources.    *)

Configured(c) == c.team \/ c.audience

Accepts(c) ==
    /\ c.on = "writes"
    /\ Configured(c) => c.team /\ c.audience
    /\ c.mode # "off" => Configured(c)
    /\ c.tokens => c.mode # "off" /\ Configured(c)

\* newIdentityResolver fails without a verified source to resolve from.
Builds(c) == c.mode = "off" \/ Configured(c) \/ c.tokens

\* Out of "all", which Auth.validate refuses, the resolver itself could do either.
InScope(c, q) == q.op # "read" \/ c.on = "all"

\* A failed first fetch of the keys does not prevent the start.
Deploy(c) ==
    /\ incoming = None
    /\ config' = c
    /\ runs' = (Accepts(c) /\ Builds(c))
    /\ keys' \in BOOLEAN
    /\ UNCHANGED <<live, incoming, answer>>

IdentityInit ==
    /\ config \in Config
    /\ runs = (Accepts(config) /\ Builds(config)) /\ keys \in BOOLEAN
    /\ live = {} /\ incoming = None /\ answer = None

\* The keys are fetched again every so often and on an unknown key's name, which may fail;
\* a fetch that succeeds, and the proxy's change to a key that was not fetched yet.
KeysFetched ==
    /\ runs /\ Configured(config) /\ ~keys
    /\ keys' = TRUE
    /\ UNCHANGED <<config, runs, live, incoming, answer>>

KeysRotated ==
    /\ runs /\ Configured(config) /\ keys
    /\ keys' = FALSE
    /\ UNCHANGED <<config, runs, live, incoming, answer>>

-----------------------------------------------------------------------------
(* What is asserted, and what is proven.                                   *)

\* "" for what is not an address, and lower case.
NormalizeEmail(x) == IF x \in {Malformed, None} THEN None ELSE x.user

\* resolveRequestUserEmail: the header, then the browser's cookie.
Asserted(q) ==
    LET h == NormalizeEmail(q.header)
        e == IF h # None THEN h ELSE NormalizeEmail(q.cookie)
    IN  IF e = None THEN Nobody ELSE [email |-> e, source |-> "asserted"]

\* What checking a credential ends with; error is none, or why nobody is proven.
Proof(u, source)  == [who |-> [email |-> u, source |-> source], error |-> None]
NoProof(error)    == [who |-> Nobody, error |-> error]

\* TokenService.Verify and CloudflareAccess.Verify.
VerifyToken(q, down) ==
    IF q.bearer = "malformed" THEN NoProof("invalid")
    ELSE IF down THEN NoProof("unavailable")
    ELSE IF q.bearer \in live THEN Proof(q.bearer, "token")
    ELSE NoProof("invalid")

\* Without the key a good assertion fails like a forged one: never as "unavailable".
VerifyProxy(q) ==
    IF q.jwt \in Users /\ keys THEN Proof(q.jwt, "proxy_jwt") ELSE NoProof("invalid")

HasToken(q) == q.bearer # None /\ config.tokens
HasJWT(q)   == q.jwt # None /\ Configured(config)

\* Mutants, here and below: the definition that follows, with a plausible bug.
VerifyUntilProven(q, down) ==
    CASE HasToken(q) /\ (~HasJWT(q) \/ (~down /\ q.bearer \in live)) -> VerifyToken(q, down)
      [] HasJWT(q) /\ ~(HasToken(q) /\ ~down /\ q.bearer \in live)  -> VerifyProxy(q)
      [] OTHER -> NoProof("missing")

\* The first configured source that is presented a credential decides, whatever it finds.
VerifyFirst(q, down) ==
    CASE HasToken(q)                -> VerifyToken(q, down)
      [] ~HasToken(q) /\ HasJWT(q) -> VerifyProxy(q)
      [] OTHER                      -> NoProof("missing")

-----------------------------------------------------------------------------
(* Resolver.Resolve and requestIdentityMiddleware.                         *)

Serve(p)       == [refused |-> None, acts |-> p]
Refuse(status) == [refused |-> status, acts |-> Nobody]

Or(p, q) == IF p = Nobody THEN q ELSE p

ShadowProvenFirst(q, v) == Serve(Or(v.who, Asserted(q)))

\* Shadow: the asserted address, and the proven one only if there is none.
Shadow(q, v) == Serve(Or(Asserted(q), v.who))

EnforceOutageAsFailure(q, v) ==
    CASE v.error \in {"invalid", "unavailable"} -> Refuse("401")
      [] v.error = None                        -> Serve(v.who)
      [] v.error = "missing" ->
           IF InScope(config, q) THEN Refuse("401") ELSE Serve(Asserted(q))

EnforceOrAsserted(q, v) ==
    CASE v.error = "unavailable" -> Refuse("503")
      [] v.error = "invalid"     -> Refuse("401")
      [] v.error = None          -> Serve(v.who)
      [] v.error = "missing" ->
           IF InScope(config, q) /\ Asserted(q) = Nobody THEN Refuse("401")
                                                         ELSE Serve(Asserted(q))

\* Enforce: the proven principal, and the asserted one only for reads without credential.
Enforce(q, v) ==
    CASE v.error = "unavailable" -> Refuse("503")
      [] v.error = "invalid"     -> Refuse("401")
      [] v.error = None          -> Serve(v.who)
      [] v.error = "missing" ->
           IF InScope(config, q) THEN Refuse("401") ELSE Serve(Asserted(q))

Resolve(q, v) ==
    CASE config.mode = "off"     -> Serve(Asserted(q))
      [] config.mode = "shadow"  -> Shadow(q, v)
      [] config.mode = "enforce" -> Enforce(q, v)

\* The header is rewritten, for what is mounted behind the handlers.
Header(q, p) ==
    IF p.email = None THEN q.header ELSE [user |-> p.email, lower |-> TRUE]

Decide(q, down) ==
    LET v == IF config.mode = "off" THEN NoProof("missing") ELSE VerifyFirst(q, down)
        d == Resolve(q, v)
    IN  [status |-> IF d.refused # None THEN d.refused
                    ELSE IF q.op # "read" /\ d.acts = Nobody THEN "400" ELSE "next",
         acts   |-> d.acts,
         proven |-> v.who,
         header |-> Header(q, d.acts),
         live   |-> live, down |-> down, keys |-> keys]

\* The token handlers exist only where tokens are enabled.
Arrive(q) ==
    /\ runs /\ incoming = None
    /\ q.op \in {"mint", "revoke"} => config.tokens
    /\ incoming' = q
    /\ UNCHANGED <<config, runs, keys, live, answer>>

Middleware ==
    /\ incoming # None /\ answer = None
    /\ \E down \in BOOLEAN : answer' = Decide(incoming, down)
    /\ UNCHANGED <<config, runs, keys, live, incoming>>

-----------------------------------------------------------------------------
(* The token handlers.                                                     *)

CanManageIfProven(p) == p # Nobody

\* canManage: only a session of the identity proxy.
CanManage(p) == p.source = "proxy_jwt"

\* The handler's turn; the token handlers' own checks and storage are another module's.
Handle ==
    /\ answer # None
    /\ live' = IF answer.status # "next" \/ ~CanManage(answer.proven) THEN live
               ELSE CASE incoming.op = "mint"   -> live \cup {answer.proven.email}
                      [] incoming.op = "revoke" -> live \ {answer.proven.email}
                      [] OTHER             -> live
    /\ incoming' = None /\ answer' = None
    /\ UNCHANGED <<config, runs, keys>>

\* Another request revokes a token meanwhile, or it expires.
Lapse(u) ==
    /\ u \in live /\ incoming # None
    /\ live' = live \ {u}
    /\ UNCHANGED <<config, runs, keys, incoming, answer>>

IdentityNext ==
    \/ \E c \in Config : Deploy(c)
    \/ KeysFetched
    \/ KeysRotated
    \/ \E q \in Incoming : Arrive(q)
    \/ Middleware
    \/ Handle
    \/ \E u \in Users : Lapse(u)

IdentitySpec == IdentityInit /\ [][IdentityNext]_identityVars

-----------------------------------------------------------------------------
(* Properties.                                                             *)

Served == answer # None /\ answer.status = "next"

\* What the request itself shows: who its credentials prove, and whether it presents one
\* to a source of this server that fails.
Proves(q) ==
    {u \in Users : \/ config.tokens /\ q.bearer = u /\ u \in answer.live /\ ~answer.down
                   \/ Configured(config) /\ q.jwt = u /\ answer.keys}

\* A configuration that is accepted starts, and where it enables tokens it also has the
\* identity proxy that mints them (Auth.validate against NewResolver and canManage).
AcceptedStarts ==
    Accepts(config) => runs /\ (config.tokens => Configured(config))

\* When writes are enforced, a handler acts only as someone the request's credentials
\* prove, never as the address it asserts (Resolve).
WritesProven ==
    Served /\ config.mode = "enforce" /\ incoming.op # "read" =>
        answer.acts.email \in Proves(incoming)

\* In enforce, a credential that is presented and fails is never made up for by another
\* source or by an address: nobody is served, read or write ("a presented credential is
\* never skipped").
NeverDowngraded ==
    Served /\ config.mode = "enforce" =>
        /\ HasToken(incoming) => ~answer.down /\ answer.acts.email = incoming.bearer
        /\ HasJWT(incoming) /\ ~HasToken(incoming) =>
             answer.keys /\ answer.acts.email = incoming.jwt

\* Shadow serves whatever the off mode would, as the same person where an address is
\* asserted ("keeps asserted behavior").
ShadowBlocksNothing ==
    answer # None /\ config.mode = "shadow" =>
        /\ answer.status \in {"next", "400"}
        /\ Asserted(incoming) # Nobody => Served /\ answer.acts = Asserted(incoming)
        /\ answer.status = "400" => Asserted(incoming) = Nobody /\ incoming.op # "read"

\* A presented credential is refused as bad only for one of these causes: a token is no
\* token, or the store was asked and has it no more, never because the store was down; an
\* assertion is not the proxy's, or the key that it is signed with could not be had
\* (ErrSourceUnavailable, which Cloudflare's verifier never gives).
DeniedForCause ==
    answer # None /\ answer.status = "401" =>
        /\ HasToken(incoming) =>
             \/ incoming.bearer = "malformed"
             \/ ~answer.down /\ incoming.bearer \notin answer.live
        /\ HasJWT(incoming) /\ ~HasToken(incoming) =>
             \/ incoming.jwt \notin Users
             \/ ~answer.keys

\* The address a handler acts as is the one that what is mounted behind it reads from the
\* header, whatever the client put there.
OneIdentity ==
    Served /\ answer.acts # Nobody =>
        answer.header = [user |-> answer.acts.email, lower |-> TRUE]

\* The settings that are accepted and the answers to requests fit what is behind them: a
\* server that starts, a credential that is bad, a header that names who acts.
Coherent == IdentityTypeOK /\ AcceptedStarts /\ DeniedForCause /\ OneIdentity

\* A token comes only from its owner's session with the proxy: an address, another token,
\* or a session beside a token that was presented mints none (canManage, Resolve).
MintedBySession ==
    [][live' \ live # {} =>
         /\ incoming.op = "mint" /\ incoming.bearer = None
         /\ live' \ live = {incoming.jwt}]_identityVars

=============================================================================
