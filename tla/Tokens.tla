-------------------------------- MODULE Tokens --------------------------------
(***************************************************************************)
(* Personal access tokens: auth.TokenService over the s3Store.  A token is *)
(* a record, and a marker in its owner's index that lets the owner find it. *)
(* Creating, verifying (which touches the record), listing and revoking    *)
(* are sequences of S3 calls by concurrent requests, each call a step that *)
(* may fail; time passes between any two.                                  *)
(***************************************************************************)
EXTENDS Auth, Naturals

CONSTANTS
    Requests,        \* slots for requests in flight
    Tokens,          \* token ids: hashes of random secrets, never drawn twice
    MaxTTL,          \* the longest life a token may be given
    TouchInterval,   \* tokenTouchInterval
    MaxTime          \* bound: the clock stops there

ASSUME TokensAssumption ==
    /\ None \notin Users \cup Tokens
    /\ None \notin Nat
    /\ MaxTTL \in Nat \ {0}
    /\ TouchInterval \in Nat \ {0}
    /\ MaxTime \in Nat

Time  == 0..MaxTime
Token == [owner: Users, created: Time, expires: Nat, used: Time \cup {None}]

Request ==
    [step:   {"record", "index", "get", "check", "reread", "touch", "accept",
              "find", "erase", "unindex", "markers", "records", "listed"},
     actor:  Users \cup {None},
     token:  Tokens \cup {None},
     copy:   Token \cup {None},   \* the record read, or to be created
     now:    Time,                \* Verify's now
     queue:  SUBSET Tokens,       \* ListTokens: markers whose record is still to be read
     result: SUBSET Tokens,       \* ListTokens: tokens found
     due:    SUBSET Tokens,       \* history: the actor's usable tokens when it began
     gone:   SUBSET Tokens]       \* history: the tokens revoked when it began

ASSUME TokenAssumption == None \notin Token /\ None \notin Request

VARIABLES
    clock,
    record,   \* _tokens/<id>.json
    index,    \* _token_owners/<owner>/: the markers
    req,      \* the requests in flight
    drawn,    \* history: ids drawn
    handed,   \* history: tokens whose plaintext was returned
    revoked   \* history: tokens whose record was deleted

history == <<drawn, handed, revoked>>
tokensVars    == <<clock, record, index, req, history>>

TokensTypeOK ==
    /\ clock \in Time
    /\ record \in [Tokens -> Token \cup {None}]
    /\ index \in [Users -> SUBSET Tokens]
    /\ req \in [Requests -> Request \cup {None}]
    /\ drawn \in SUBSET Tokens
    /\ handed \in SUBSET Tokens
    /\ revoked \in SUBSET Tokens

TokensInit ==
    /\ clock = 0
    /\ record = [t \in Tokens |-> None]
    /\ index = [u \in Users |-> {}]
    /\ req = [r \in Requests |-> None]
    /\ drawn = {}
    /\ handed = {}
    /\ revoked = {}

-----------------------------------------------------------------------------

At(r, step) == req[r] # None /\ req[r].step = step

Goto(r, step) == req' = [req EXCEPT ![r].step = step]

End(r) == req' = [req EXCEPT ![r] = None]

\* A token someone can present: its plaintext is known and its record is there.
Usable(u) == {t \in handed : record[t] # None /\ record[t].owner = u}

Call(step, u, t, copy, now) ==
    [step |-> step, actor |-> u, token |-> t, copy |-> copy, now |-> now,
     queue |-> {}, result |-> {},
     due |-> IF u = None THEN {} ELSE Usable(u), gone |-> revoked]

\* The request goes to another step with the record it has read.
Holding(q, step, copy) == [q EXCEPT !.step = step, !.copy = copy]

Begin(r, step, u, t, copy) ==
    /\ req[r] = None
    /\ req' = [req EXCEPT ![r] = Call(step, u, t, copy, clock)]

Tick ==
    /\ clock < MaxTime
    /\ clock' = clock + 1
    /\ UNCHANGED <<record, index, req, history>>

-----------------------------------------------------------------------------
(* TokenService.Create: the record, only if there is none, then the marker. *)

NewToken(u, ttl) ==
    [owner |-> u, created |-> clock, expires |-> clock + ttl, used |-> None]

StartCreate(r, u, t, ttl) ==
    /\ t \notin drawn
    /\ drawn' = drawn \cup {t}
    /\ Begin(r, "record", u, t, NewToken(u, ttl))
    /\ UNCHANGED <<clock, record, index, handed, revoked>>

PutRecord(r) ==
    LET q == req[r]
    IN  /\ At(r, "record")
        /\ record[q.token] = None
        /\ record' = [record EXCEPT ![q.token] = q.copy]
        /\ Goto(r, "index") \/ End(r)     \* End: applied, and an error returned
        /\ UNCHANGED <<clock, index, history>>

PutMarker(r) ==
    LET q == req[r]
    IN  /\ At(r, "index")
        /\ index' = [index EXCEPT ![q.copy.owner] = @ \cup {q.token}]
        /\ End(r)
        /\ handed' \in {handed, handed \cup {q.token}}
        /\ UNCHANGED <<clock, record, drawn, revoked>>

-----------------------------------------------------------------------------
(* TokenService.Verify: whoever holds the plaintext presents it.           *)

StartVerify(r, t) ==
    /\ t \in handed
    /\ Begin(r, "get", None, t, None)
    /\ UNCHANGED <<clock, record, index, history>>

Get(r) ==
    LET q == req[r]
    IN  /\ At(r, "get")
        /\ record[q.token] # None
        /\ req' = [req EXCEPT ![r] = Holding(q, "check", record[q.token])]
        /\ UNCHANGED <<clock, record, index, history>>

Expired(token, now) == token.expires <= now

TouchDue(token, now) == token.used = None \/ now >= token.used + TouchInterval

\* What Verify does at the instant now with the record it has read.
Decided(q, now) ==
    [q EXCEPT !.now = now,
              !.step = IF TouchDue(q.copy, now) THEN "reread" ELSE "accept"]

\* The clock is read after the record.
Check(r) ==
    LET q == req[r]
    IN  /\ At(r, "check")
        /\ IF Expired(q.copy, clock)
             THEN End(r)
             ELSE req' = [req EXCEPT ![r] = Decided(q, clock)]
        /\ UNCHANGED <<clock, record, index, history>>

\* TouchToken reads the record again, for its ETag; without one there is no touch.
Reread(r) ==
    LET q == req[r]
    IN  /\ At(r, "reread")
        /\ IF record[q.token] # None
             THEN req' = [req EXCEPT ![r] = Holding(q, "touch", record[q.token])]
             ELSE Goto(r, "accept")
        /\ UNCHANGED <<clock, record, index, history>>

\* Mutants, here and below: the definition that follows, with a plausible bug.
MatchesAnything(current, read) == TRUE

\* If-Match: the put is applied only over the record that was read.
Matches(current, read) == current = read

UsedAt(token, now) == [token EXCEPT !.used = now]

\* Whatever the touch comes to, Verify returns the owner.
Touch(r) ==
    LET q == req[r]
    IN  /\ At(r, "touch")
        /\ IF Matches(record[q.token], q.copy)
             THEN record' = [record EXCEPT ![q.token] = UsedAt(q.copy, q.now)]
             ELSE UNCHANGED record
        /\ Goto(r, "accept")
        /\ UNCHANGED <<clock, index, history>>

Accept(r) ==
    /\ At(r, "accept")
    /\ End(r)
    /\ UNCHANGED <<clock, record, index, history>>

-----------------------------------------------------------------------------
(* TokenService.Revoke: the record first, then its marker.                 *)

StartRevoke(r, u, t) ==
    /\ Begin(r, "find", u, t, None)
    /\ UNCHANGED <<clock, record, index, history>>

\* DeleteToken goes on only for the token's owner.
Find(r) ==
    LET q == req[r]
    IN  /\ At(r, "find")
        /\ record[q.token] # None
        /\ record[q.token].owner = q.actor
        /\ req' = [req EXCEPT ![r] = Holding(q, "erase", record[q.token])]
        /\ UNCHANGED <<clock, record, index, history>>

Erase(r) ==
    LET q == req[r]
    IN  /\ At(r, "erase")
        /\ record' = [record EXCEPT ![q.token] = None]
        /\ revoked' = revoked \cup {q.token}
        /\ Goto(r, "unindex") \/ End(r)   \* End: applied, and an error returned
        /\ UNCHANGED <<clock, index, drawn, handed>>

Unindex(r) ==
    LET q == req[r]
    IN  /\ At(r, "unindex")
        /\ index' = [index EXCEPT ![q.copy.owner] = @ \ {q.token}]
        /\ End(r)
        /\ UNCHANGED <<clock, record, history>>

-----------------------------------------------------------------------------
(* TokenService.List: the markers, then the record of each.                *)

StartList(r, u) ==
    /\ Begin(r, "markers", u, None, None)
    /\ UNCHANGED <<clock, record, index, history>>

Reading(q, queue, result) ==
    [q EXCEPT !.step = "records", !.queue = queue, !.result = result]

Markers(r) ==
    LET q == req[r]
    IN  /\ At(r, "markers")
        /\ req' = [req EXCEPT ![r] = Reading(q, index[q.actor], {})]
        /\ UNCHANGED <<clock, record, index, history>>

\* A marker without a record is skipped, and so is another owner's record.
Lists(t, u) == record[t] # None /\ record[t].owner = u

ReadRecord(r, t) ==
    LET q == req[r]
    IN  /\ At(r, "records")
        /\ t \in q.queue
        /\ req' = [req EXCEPT ![r] =
                     Reading(q, q.queue \ {t},
                             q.result \cup {x \in {t} : Lists(x, q.actor)})]
        /\ UNCHANGED <<clock, record, index, history>>

ListedFirstPage(r) ==
    /\ At(r, "records")
    /\ Goto(r, "listed")
    /\ UNCHANGED <<clock, record, index, history>>

Listed(r) ==
    /\ At(r, "records")
    /\ req[r].queue = {}
    /\ Goto(r, "listed")
    /\ UNCHANGED <<clock, record, index, history>>

AnswerList(r) ==
    /\ At(r, "listed")
    /\ End(r)
    /\ UNCHANGED <<clock, record, index, history>>

-----------------------------------------------------------------------------

FailsOpen(r) ==
    /\ req[r] # None
    /\ req[r].step \notin {"check", "accept", "listed"}
    /\ IF req[r].step \in {"get", "reread", "touch"} THEN Goto(r, "accept") ELSE End(r)
    /\ UNCHANGED <<clock, record, index, history>>

FailsUnindexed(r) ==
    /\ req[r] # None
    /\ req[r].step = "index"
    /\ End(r)
    /\ handed' = handed \cup {req[r].token}
    /\ UNCHANGED <<clock, record, index, drawn, revoked>>

\* An S3 call fails without effect, or a check refuses: the request ends there, except
\* that a failed touch only goes unrecorded.
Fails(r) ==
    /\ req[r] # None
    /\ req[r].step \notin {"check", "accept", "listed"}
    /\ IF req[r].step \in {"reread", "touch"} THEN Goto(r, "accept") ELSE End(r)
    /\ UNCHANGED <<clock, record, index, history>>

\* The server stops and starts again; what was in flight is gone.
Restart ==
    /\ \E r \in Requests : req[r] # None
    /\ req' = [r \in Requests |-> None]
    /\ UNCHANGED <<clock, record, index, history>>

Create(r) ==
    \/ \E u \in Users, t \in Tokens, ttl \in 1..MaxTTL : StartCreate(r, u, t, ttl)
    \/ PutRecord(r)
    \/ PutMarker(r)

Verify(r) ==
    \/ \E t \in Tokens : StartVerify(r, t)
    \/ Get(r)
    \/ Check(r)
    \/ Reread(r)
    \/ Touch(r)
    \/ Accept(r)

Revoke(r) ==
    \/ \E u \in Users, t \in Tokens : StartRevoke(r, u, t)
    \/ Find(r)
    \/ Erase(r)
    \/ Unindex(r)

List(r) ==
    \/ \E u \in Users : StartList(r, u)
    \/ Markers(r)
    \/ \E t \in Tokens : ReadRecord(r, t)
    \/ Listed(r)
    \/ AnswerList(r)

TokensNext ==
    \/ Tick
    \/ \E r \in Requests : Create(r) \/ Verify(r) \/ Revoke(r) \/ List(r) \/ Fails(r)
    \/ Restart

TokensSpec == TokensInit /\ [][TokensNext]_tokensVars

-----------------------------------------------------------------------------
(* Properties.                                                             *)

\* A revoked token never comes back, whatever touch was under way when its record was
\* deleted ("a revocation between the read and this write cannot be undone", TouchToken).
RevokedStaysRevoked == \A t \in revoked : record[t] = None

\* "Revocation takes effect on the next request": a verification that begins after the
\* record was deleted does not accept the token (authentication.md, TokenService.Verify).
RevocationTakesEffect ==
    \A r \in Requests : At(r, "accept") => req[r].token \notin req[r].gone

\* A token that somebody can use is in its owner's index, so that the owner can find
\* and revoke it, whichever puts and deletes failed (CreateToken, DeleteToken).
UsableIndexed == \A u \in Users : Usable(u) \subseteq index[u]

\* No use is recorded before the token was created, after it expired, or in the future,
\* though TouchToken writes an instant taken before it read the record again.
UsedInLifetime ==
    \A t \in Tokens : record[t] # None /\ record[t].used # None =>
        /\ record[t].created <= record[t].used
        /\ record[t].used < record[t].expires
        /\ record[t].used <= clock

\* What a stored token is, whatever touch ends late: well-formed, not one that was
\* revoked, and last used within its life.
RecordsTrue == TokensTypeOK /\ RevokedStaysRevoked /\ UsedInLifetime

\* A list shows every token of its owner that was usable all along, and none revoked
\* before it began, though it reads markers and records one after the other (ListTokens).
ListExact ==
    \A r \in Requests : At(r, "listed") =>
        LET q == req[r]
        IN  /\ {t \in q.due : record[t] # None} \subseteq q.result
            /\ q.result \cap q.gone = {}

=============================================================================
