----------------------------- MODULE Moderation -----------------------------
(***************************************************************************)
(* What the inspector's verdicts do to the file at one slug: the upload     *)
(* gate of the server, and the scanner, which inspects what is stored and   *)
(* flags it by copying the object over itself with other metadata.          *)
(***************************************************************************)
EXTENDS Intake

CONSTANT FailOpen   \* intakeFail: does an upload pass when the inspector fails?

ASSUME ModerationAssumption == FailOpen \in BOOLEAN

VARIABLES
    object,     \* the file at the slug, or None
    mixed       \* history: was its metadata written over an object it was not read from?

store == <<object, mixed>>
vars  == <<intake, req, store>>

TypeOK ==
    /\ IntakeTypeOK
    /\ object \in Stored \cup {None}
    /\ mixed \in BOOLEAN

Init ==
    /\ IntakeInit
    /\ object = None
    /\ mixed = FALSE

-----------------------------------------------------------------------------
(* gateUpload, then the store.                                             *)

StartUpload(r, f) ==
    /\ req[r] = None
    /\ Becomes(r, Start("server", "ask", f))
    /\ UNCHANGED <<intake, store>>

\* A scan's metadata are no longer the object's.
Outdated(q) == IF q # None /\ q.by = "scan" THEN [q EXCEPT !.same = FALSE] ELSE q

\* r ends, having changed the object.
EndChanged(r) ==
    req' = [x \in Requests |-> IF x = r THEN None ELSE Outdated(req[x])]

Admit(r) ==
    LET q == req[r]
    IN  /\ At(r, "verdict")
        /\ q.by = "server"
        /\ q.allowed
        /\ object' = [file |-> q.file, meta |-> q.file, flagged |-> FALSE]
        /\ mixed' = FALSE
        /\ EndChanged(r)
        /\ UNCHANGED intake

\* 403: the store is left untouched.
Block(r) ==
    LET q == req[r]
    IN  /\ At(r, "verdict")
        /\ q.by = "server"
        /\ ~q.allowed
        /\ End(r)
        /\ UNCHANGED <<intake, store>>

\* inspectUpload: the inspector fails; 503 unless the gate fails open.
UploadUninspected(r) ==
    LET q == req[r]
    IN  /\ At(r, "model")
        /\ q.by = "server"
        /\ IF FailOpen THEN Becomes(r, Verdict(q, TRUE)) ELSE End(r)
        /\ UNCHANGED <<intake, store>>

Delete ==
    /\ object # None
    /\ object' = None
    /\ mixed' = FALSE
    /\ req' = [x \in Requests |-> Outdated(req[x])]
    /\ UNCHANGED intake

-----------------------------------------------------------------------------
(* The scanner's worker: inspectOne.                                       *)

\* getObject: HeadObject, then GetObject.
ScanHead(r) ==
    /\ req[r] = None
    /\ object # None
    /\ Becomes(r, [Start("scan", "get", None) EXCEPT !.head = object])
    /\ UNCHANGED <<intake, store>>

\* Inspected under the name and type that HeadObject gave, which `same` tells apart.
ScanGet(r) ==
    /\ At(r, "get")
    /\ IF object = None
         THEN End(r)
         ELSE Becomes(r, Inspected([req[r] EXCEPT !.file = object.file]))
    /\ UNCHANGED <<intake, store>>

\* Allowed, or --dry-run: nothing is written.
ScanPasses(r) ==
    /\ At(r, "verdict")
    /\ req[r].by = "scan"
    /\ End(r)
    /\ UNCHANGED <<intake, store>>

FlaggedBare(q) == [file |-> object.file, meta |-> None, flagged |-> TRUE]

\* What CopyObject with REPLACE makes of the object that is there by then.
Flagged(q) == [file |-> object.file, meta |-> q.head.meta, flagged |-> TRUE]

MayFlag(q) == ~q.allowed

SetFlag(r) ==
    LET q == req[r]
    IN  /\ At(r, "verdict")
        /\ q.by = "scan"
        /\ MayFlag(q)
        /\ object # None
        /\ object' = Flagged(q)
        /\ mixed' = (mixed \/ ~q.same)
        /\ EndChanged(r)
        /\ UNCHANGED intake

-----------------------------------------------------------------------------

\* The request, or the worker, gives up: a call failed, or its process stopped.
Abandon(r) ==
    /\ req[r] # None
    /\ End(r)
    /\ UNCHANGED <<intake, store>>

\* The server starts again, and reads the guidance anew.
Restart ==
    /\ source' = Read(prompt, clock)
    /\ req' = [r \in Requests |->
                 IF req[r] # None /\ req[r].by = "server" THEN None ELSE req[r]]
    /\ UNCHANGED <<clock, prompt, verdicts, published, swapped, store>>

Gate(r) ==
    \/ \E f \in Files : StartUpload(r, f)
    \/ Admit(r)
    \/ Block(r)
    \/ UploadUninspected(r)

Scan(r) ==
    \/ ScanHead(r)
    \/ ScanGet(r)
    \/ ScanPasses(r)
    \/ SetFlag(r)

Next ==
    \/ \E r \in Requests : Gate(r) \/ Scan(r) \/ Abandon(r)
    \/ \E r \in Requests : Inspect(r) /\ UNCHANGED store
    \/ Tick /\ UNCHANGED store
    \/ \E p \in Prompts : Publish(p) /\ UNCHANGED store
    \/ Delete
    \/ Restart

Spec == Init /\ [][Next]_vars

-----------------------------------------------------------------------------
(* Properties.                                                             *)

Passes(f) == f \in Skipped \/ \E p \in published : <<p, f>> \notin Blocks

\* What is stored was allowed by a guidance that was published, whatever failed on the
\* way: "cache failures ... never let unchecked content through", unless the gate is
\* set to fail open.
StoredWasAllowed == object # None /\ ~FailOpen => Passes(object.file)

\* An allowed verdict stands under the guidance that gave it ("Changing the model or
\* guidance re-inspects everything", README): what the cache holds for a guidance, that
\* guidance allows.
CacheSound ==
    \A v \in verdicts : v \notin Blocks \/ v[2] \in Skipped

\* The same, unless a new guidance was read between the fingerprint and the model's
\* request of one inspection (cachedInspector.Inspect).
CacheSoundUnlessSwapped == ~swapped => CacheSound

\* An inspection uses no guidance older than the cache's lifetime and the time one read
\* takes, even when several requests refresh it at once and the slower answer is cached
\* last; only failed reads keep a guidance longer (CachedSource.Fetch).
GuidanceInTime == \A r \in Requests : req[r] # None => ~req[r].late

\* A flag is deserved: a published guidance blocks the file that bears it, unless an
\* upload or another scan got between the scanner's reads and its copy (inspectOne).
FlagDeserved ==
    object # None /\ object.flagged /\ ~mixed =>
        \E p \in published : <<p, object.file>> \in Blocks

\* Flagging "preserves all other user metadata": a file keeps the metadata it was
\* uploaded with, with the same exception (setFlag).
MetadataKept == object # None /\ ~mixed => object.meta = object.file

\* What the scanner's copy of an object over itself leaves, when nothing got between.
FlagsTrue == TypeOK /\ FlagDeserved /\ MetadataKept

=============================================================================
