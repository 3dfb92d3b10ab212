------------------------------- MODULE Uploads -------------------------------
(***************************************************************************)
(* Single-file uploads: handleUpload with s3Store.Put, the version read    *)
(* back for the response, handleDelete's removal of the object, and the    *)
(* reads a client bases its next update on.  One S3 object per slug; its   *)
(* version is the ETag, that is, its content.  Each S3 call is a step.     *)
(***************************************************************************)
EXTENDS Naturals

CONSTANTS
    Clients,      \* each sends one request at a time
    Slugs,
    Contents,     \* file contents, told apart by their ETags: numbers
    None,         \* no object, no version
    Modes,        \* which of "create", "overwrite", "match" the clients send
    MaxRetries,   \* handleUpload's maxRetries
    HeadFaults,   \* may HeadObject fail without an API error code?
    MaxUploads    \* bound on the uploads sent

ASSUME UploadsAssumption ==
    /\ Contents \subseteq Nat
    /\ None \notin Contents
    /\ None \notin Slugs
    /\ Modes \subseteq {"create", "overwrite", "match"}
    /\ MaxRetries \in Nat
    /\ HeadFaults \in BOOLEAN
    /\ MaxUploads \in Nat

Version == Contents \cup {None}

\* How a client came by the version it holds: asked for it, asked for it and then read
\* the content, or was given it in the reply to its own upload.
Basis == {"asked", "read", "reply"}

Request ==
    [step:    {"head", "put", "reply", "conflict", "find", "remove"},
     mode:    {"create", "overwrite", "match", "delete"},
     slug:    Slugs,
     content: Version,
     ifMatch: Version,
     basis:   Basis,               \* history: that of ifMatch
     redraws: 0..MaxRetries,       \* left to a generated slug that is taken
     lone:    BOOLEAN]             \* history: met no other request, and HeadObject answered

ASSUME UploadRequestAssumption == None \notin Request

VARIABLES
    object,   \* the object at each slug: its content, or None
    req,      \* the request each client waits for
    held,     \* the version each client would send as if_match
    basis,    \* how it came by that version
    sent,     \* the uploads sent, to bound them
    seen,     \* history: the contents each client has sent or read
    stored,   \* history: the contents that have been stored
    again     \* history: those stored more than once

client == <<held, basis, sent, seen>>
store  == <<object, stored, again>>
vars   == <<store, req, client>>

TypeOK ==
    /\ object \in [Slugs -> Version]
    /\ req \in [Clients -> Request \cup {None}]
    /\ held \in [Clients -> [Slugs -> Version]]
    /\ basis \in [Clients -> [Slugs -> Basis]]
    /\ sent \in 0..MaxUploads
    /\ seen \in [Clients -> SUBSET Contents]
    /\ stored \subseteq Contents
    /\ again \subseteq stored

Init ==
    /\ object = [s \in Slugs |-> None]
    /\ req = [c \in Clients |-> None]
    /\ held = [c \in Clients |-> [s \in Slugs |-> None]]
    /\ basis = [c \in Clients |-> [s \in Slugs |-> "asked"]]
    /\ sent = 0
    /\ seen = [c \in Clients |-> {}]
    /\ stored = {}
    /\ again = {}

-----------------------------------------------------------------------------

At(c, step) == req[c] # None /\ req[c].step = step

Goto(c, step) == req' = [req EXCEPT ![c].step = step]

End(c) == req' = [req EXCEPT ![c] = None]

\* The client learns version v of slug s.
Learns(c, s, v, how) ==
    /\ held' = [held EXCEPT ![c][s] = v]
    /\ basis' = [basis EXCEPT ![c][s] = IF v = None THEN "asked" ELSE how]

Sees(c, x) == seen' = [seen EXCEPT ![c] = @ \cup {x}]

\* Contents are numbered in the order in which they are first sent.
Sends(c, x) ==
    /\ \A y \in Contents : y < x => \E d \in Clients : y \in seen[d]
    /\ sent < MaxUploads
    /\ sent' = sent + 1
    /\ Sees(c, x)

Upload(step, mode, s, x, v, how, redraws) ==
    [step |-> step, mode |-> mode, slug |-> s, content |-> x, ifMatch |-> v,
     basis |-> how, redraws |-> redraws, lone |-> TRUE]

\* Whatever is under way meets the request that starts.
Starts(c, q) ==
    /\ req[c] = None
    /\ req' = [d \in Clients |->
                 IF d = c THEN [q EXCEPT !.lone = \A e \in Clients : req[e] = None]
                 ELSE IF req[d] # None THEN [req[d] EXCEPT !.lone = FALSE]
                 ELSE None]

-----------------------------------------------------------------------------
(* The reads of a client before an update, as the upload guide asks for them: *)
(* GET /api/artifacts/{slug} for the version, then GET /{slug}/raw to merge.  *)

GetVersion(c, s) ==
    /\ req[c] = None
    /\ Learns(c, s, object[s], "asked")
    /\ UNCHANGED <<store, req, sent, seen>>

GetRaw(c, s) ==
    /\ req[c] = None
    /\ held[c][s] # None
    /\ object[s] # None
    /\ Sees(c, object[s])
    /\ basis' = [basis EXCEPT ![c][s] = "read"]
    /\ UNCHANGED <<store, req, held, sent>>

-----------------------------------------------------------------------------
(* handleUpload: the request is read and gated, then the store is asked.   *)

\* For a slug the client chose, or one that generateSlug drew.
StartCreate(c, s, x) ==
    /\ "create" \in Modes
    /\ \E redraws \in {0, MaxRetries} :
          Starts(c, Upload("head", "create", s, x, None, "asked", redraws))
    /\ Sends(c, x)
    /\ UNCHANGED <<store, held, basis>>

\* Where the slug comes from makes no difference here.
StartOverwrite(c, s, x) ==
    /\ "overwrite" \in Modes
    /\ Starts(c, Upload("put", "overwrite", s, x, None, "asked", 0))
    /\ Sends(c, x)
    /\ UNCHANGED <<store, held, basis>>

\* if_match needs a slug, and implies overwrite.  Clients send a version whose content
\* they have read, or the one in the reply to their own upload.
StartMatch(c, s, x) ==
    /\ "match" \in Modes
    /\ held[c][s] # None
    /\ basis[c][s] # "asked"
    /\ Starts(c, Upload("put", "match", s, x, held[c][s], basis[c][s], 0))
    /\ Sends(c, x)
    /\ UNCHANGED <<store, held, basis>>

\* The slug is settled: no more draws.
Stores(c, alone) ==
    req' = [req EXCEPT ![c].step = "put", ![c].redraws = 0, ![c].lone = alone]

\* Mutants, here and below: the definition that follows, with a plausible bug.
HeadIgnored(c) ==
    /\ At(c, "head")
    /\ Stores(c, req[c].lone)
    /\ UNCHANGED <<store, client>>

\* s3Store.Put without overwrite or if_match asks first whether the slug is free.
HeadFree(c) ==
    /\ At(c, "head")
    /\ object[req[c].slug] = None
    /\ Stores(c, req[c].lone)
    /\ UNCHANGED <<store, client>>

\* Taken: 409 for a slug the client chose, another draw for a generated one,
\* and 500 when the draws are used up.
HeadTaken(c) ==
    /\ At(c, "head")
    /\ object[req[c].slug] # None
    /\ \/ /\ req[c].redraws > 0
          /\ \E s \in Slugs :
                req' = [req EXCEPT ![c].slug = s, ![c].redraws = @ - 1]
       \/ req[c].redraws = 0 /\ End(c)
    /\ UNCHANGED <<store, client>>

\* An error that carries no API error code does not stop Put; any other does.
HeadFault(c) ==
    /\ At(c, "head")
    /\ HeadFaults
    /\ \/ Stores(c, FALSE)
       \/ End(c)
    /\ UNCHANGED <<store, client>>

MayPutAlways(q, current) == TRUE

\* What PutObject needs to find: If-Match is compared atomically by S3.
MayPut(q, current) == q.mode = "match" => current = q.ifMatch

Stored(q) ==
    /\ object' = [object EXCEPT ![q.slug] = q.content]
    /\ stored' = stored \cup {q.content}
    /\ again' = again \cup ({q.content} \cap stored)

Put(c) ==
    LET q == req[c]
    IN  /\ At(c, "put")
        /\ MayPut(q, object[q.slug])
        /\ Stored(q)
        /\ Goto(c, "reply")
        /\ UNCHANGED client

\* The put is applied, its answer is lost and the SDK sends it again.
PutResent(c) ==
    LET q == req[c]
    IN  /\ At(c, "put")
        /\ MayPut(q, object[q.slug])
        /\ Stored(q)
        /\ UNCHANGED <<req, client>>

\* 412 from S3, or 409 while another conditional write is under way.
PutRefused(c) ==
    /\ At(c, "put")
    /\ req[c].mode = "match"
    /\ Goto(c, "conflict")
    /\ UNCHANGED <<store, client>>

\* The put returns some other error, applied or not.
PutFails(c) ==
    LET q == req[c]
    IN  /\ At(c, "put")
        /\ \/ UNCHANGED store
           \/ MayPut(q, object[q.slug]) /\ Stored(q)
        /\ End(c)
        /\ UNCHANGED client

\* The reply's version comes from a Metadata call of its own, after the put; if that
\* fails the reply has no version.
Reply(c) ==
    LET q == req[c]
    IN  /\ At(c, "reply")
        /\ \E v \in {object[q.slug], None} : Learns(c, q.slug, v, "reply")
        /\ End(c)
        /\ UNCHANGED <<store, sent, seen>>

ConflictPutAgain(c) ==
    /\ At(c, "conflict")
    /\ Goto(c, "put")
    /\ UNCHANGED <<store, client>>

\* versionConflict: 412 with the version lookupArtifact finds now, or with none when
\* that fails.
Conflict(c) ==
    LET q == req[c]
    IN  /\ At(c, "conflict")
        /\ \E v \in {object[q.slug], None} : Learns(c, q.slug, v, "asked")
        /\ End(c)
        /\ UNCHANGED <<store, sent, seen>>

-----------------------------------------------------------------------------
(* handleDelete: HeadObject, then DeleteObject of whatever is there by then. *)

StartDelete(c, s) ==
    /\ Starts(c, Upload("find", "delete", s, None, None, "asked", 0))
    /\ UNCHANGED <<store, client>>

\* It ends there when the object is absent, or the question fails.
Find(c) ==
    /\ At(c, "find")
    /\ \/ object[req[c].slug] # None /\ Goto(c, "remove")
       \/ End(c)
    /\ UNCHANGED <<store, client>>

\* An error may leave the object, or come after it has gone.
Remove(c) ==
    /\ At(c, "remove")
    /\ \/ UNCHANGED object
       \/ object' = [object EXCEPT ![req[c].slug] = None]
    /\ End(c)
    /\ UNCHANGED <<stored, again, client>>

\* The server stops and starts again; the objects stay.
Restart ==
    /\ \E c \in Clients : req[c] # None
    /\ req' = [c \in Clients |-> None]
    /\ UNCHANGED <<store, client>>

-----------------------------------------------------------------------------

Serve(c) ==
    \/ HeadFree(c)
    \/ HeadTaken(c)
    \/ HeadFault(c)
    \/ Put(c)
    \/ PutRefused(c)
    \/ PutFails(c)
    \/ Reply(c)
    \/ Conflict(c)
    \/ Find(c)
    \/ Remove(c)

Ask(c) ==
    \E s \in Slugs :
        \/ GetVersion(c, s)
        \/ GetRaw(c, s)
        \/ StartDelete(c, s)
        \/ \E x \in Contents :
              StartCreate(c, s, x) \/ StartOverwrite(c, s, x) \/ StartMatch(c, s, x)

Next ==
    \/ \E c \in Clients : Ask(c) \/ Serve(c) \/ PutResent(c)
    \/ Restart

Spec == Init /\ [][Next]_vars

\* Each handler runs until it answers: goroutines are scheduled, every S3 call returns,
\* with an error at the latest when its connection times out, and the SDK gives up
\* after a few attempts.
FairSpec == Spec /\ \A c \in Clients : WF_vars(Serve(c))

-----------------------------------------------------------------------------
(* Properties.                                                             *)

\* A step in which client c's put takes effect.
PutBy(c) ==
    /\ object' # object
    /\ Put(c) \/ PutResent(c) \/ PutFails(c)

\* Only an overwrite replaces a file: an upload that asked for neither overwrite nor
\* if_match stores its content at a free slug, whoever uploads or deletes meanwhile
\* (s3Store.Put's HeadObject before PutObject; "Slug already taken").
CreateNeverReplaces ==
    [][\A c \in Clients :
          PutBy(c) /\ req[c].mode = "create" => object[req[c].slug] = None]_vars

\* An upload that asked for neither overwrite nor if_match, met no other request and had
\* its question to S3 answered, replaces nothing, the redraws of a generated slug included.
LoneCreateReplacesNothing ==
    [][\A c \in Clients :
          PutBy(c) /\ req[c].mode = "create" /\ req[c].lone =>
              object[req[c].slug] = None]_vars

\* Client c's put replaces a content that c has neither sent nor read.  Contents stored
\* more than once are set aside: an old version of theirs is current again.
BlindPut(c) ==
    /\ PutBy(c)
    /\ req[c].mode = "match"
    /\ object[req[c].slug] \notin seen[c] \cup again

\* A client that follows the upload guide destroys nobody's work: what its conditional
\* update replaces is something it has sent or read, also when the version it sends is
\* the one its last upload was answered with ("so concurrent editors don't clobber each
\* other", handleUpload; "send it as if_match on your next update", docs/llms.txt).
NoBlindReplace == [][\A c \in Clients : ~BlindPut(c)]_vars

\* The same of the updates whose version was asked for and whose content was then read,
\* whoever uploads and deletes meanwhile, and whichever puts are repeated or fail.
ReadUpdatesNotBlind == [][\A c \in Clients : BlindPut(c) => req[c].basis = "reply"]_vars

\* Every upload and delete is answered: the draws of generated slugs run out even when
\* every slug stays taken (handleUpload's retry loop).
Answered == \A c \in Clients : req[c] # None ~> req[c] = None

=============================================================================
