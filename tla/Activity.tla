------------------------------- MODULE Activity -------------------------------
(***************************************************************************)
(* One browser's manifest of uploads and views (_users/<id>.json).  Every  *)
(* upload and every view rewrites the whole object: s3Store.updateManifest *)
(* reads it, merges one record into it and puts it back on condition that  *)
(* nobody else did in between, a few times over.  Requests interleave      *)
(* between the read and the put, and any call may fail or be answered late. *)
(***************************************************************************)
EXTENDS Naturals

CONSTANTS
    Requests,      \* slots for requests in flight
    Slugs,
    Users,
    None,
    MaxAttempts,   \* attempts of updateManifest, 5 in the code
    MaxTime,       \* bound: the clock stops there
    MaxCalls       \* bound: uploads and views recorded

ASSUME ActivityAssumption ==
    /\ None \notin Slugs \cup Users
    /\ None \notin Nat
    /\ MaxAttempts \in Nat \ {0}
    /\ MaxTime \in Nat
    /\ MaxCalls \in Nat

Time     == 0..MaxTime
Kinds    == {"uploads", "views"}
Email    == Users \cup {None}
Record   == [slug: Slugs, user: Email, owner: Email, at: Time]
Manifest == [Kinds -> SUBSET Record]

Request ==
    [step: {"read", "put"}, kind: Kinds, record: Record,
     copy: Manifest \cup {None}, attempt: 0..(MaxAttempts - 1)]

ASSUME RequestAssumption == None \notin Manifest /\ None \notin Request

VARIABLES
    clock,
    stored,   \* the manifest object, None when there is none
    req,      \* the requests in flight
    calls,    \* calls made, for the bound
    acked,    \* history: the calls that reported success
    known     \* history: <<slug, user>>, who was named as an artifact's uploader

vars == <<clock, stored, req, calls, acked, known>>

TypeOK ==
    /\ clock \in Time
    /\ stored \in Manifest \cup {None}
    /\ req \in [Requests -> Request \cup {None}]
    /\ calls \in 0..MaxCalls
    /\ acked \in SUBSET [kind: Kinds, record: Record]
    /\ known \in SUBSET (Slugs \X Users)

\* A missing object is read as an empty manifest.
Empty == [k \in Kinds |-> {}]

Contents(m) == IF m = None THEN Empty ELSE m

\* An upload recorded before records carried the owner's address.
Older(s, u) ==
    [k \in Kinds |-> IF k = "uploads"
                       THEN {[slug |-> s, user |-> u, owner |-> None, at |-> 0]}
                       ELSE {}]

Init ==
    /\ clock = 0
    /\ req = [r \in Requests |-> None]
    /\ calls = 0
    /\ acked = {}
    /\ \/ stored = None /\ known = {}
       \/ \E s \in Slugs, u \in Users : stored = Older(s, u) /\ known = {<<s, u>>}

-----------------------------------------------------------------------------
(* UserManifest: one record merged into the lists that were read.          *)

Newest(records) == CHOOSE p \in records : \A o \in records : o.at <= p.at

\* Mutants, here and below: the definition that follows, with a plausible bug.
LatestActivity(records, record) ==
    {p \in records : p.slug # record.slug} \cup {record}

\* Other artifacts' entries stay; of this artifact's, the newest.
mergeActivity(records, record) ==
    LET newer == {p \in records : p.slug = record.slug /\ p.at > record.at}
    IN  {p \in records : p.slug # record.slug}
          \cup {IF newer = {} THEN record ELSE Newest(newer)}

\* Who an upload's record names as the owner.
Uploader(upload) == IF upload.owner = None THEN upload.user ELSE upload.owner

OwnedByViewer(uploads, record) ==
    IF record.owner = None THEN [record EXCEPT !.owner = record.user] ELSE record

\* A view of an artifact without an owner takes the one this browser uploaded it as.
Attributed(uploads, record) ==
    LET own == {p \in uploads : p.slug = record.slug}
    IN  IF record.owner # None \/ own = {}
          THEN record
          ELSE [record EXCEPT !.owner = Uploader(Newest(own))]

Updated(m, kind, record) ==
    [m EXCEPT ![kind] =
       mergeActivity(@, IF kind = "views" THEN Attributed(m["uploads"], record)
                                          ELSE record)]

-----------------------------------------------------------------------------

At(r, step) == req[r] # None /\ req[r].step = step

End(r) == req' = [req EXCEPT ![r] = None]

\* RecordUpload and RecordView stamp the record before the manifest is read.
StartRecord(r, kind, s, user, owner) ==
    /\ req[r] = None
    /\ calls < MaxCalls
    /\ calls' = calls + 1
    /\ req' = [req EXCEPT ![r] =
                 [step |-> "read", kind |-> kind,
                  record |-> [slug |-> s, user |-> user, owner |-> owner, at |-> clock],
                  copy |-> None, attempt |-> 0]]
    /\ known' = known \cup {<<s, o>> : o \in {owner} \ {None}}
    /\ UNCHANGED <<clock, stored, acked>>

\* An upload's owner is whoever uploads; a view's is the artifact's, if it has one.
RecordUpload(r, s, user) == StartRecord(r, "uploads", s, user, user)

RecordView(r, s, user, owner) == StartRecord(r, "views", s, user, owner)

HasRead(q, m) == [q EXCEPT !.step = "put", !.copy = m]

readManifest(r) ==
    /\ At(r, "read")
    /\ req' = [req EXCEPT ![r] = HasRead(req[r], stored)]
    /\ UNCHANGED <<clock, stored, calls, acked, known>>

Again(q) == [q EXCEPT !.step = "read", !.copy = None, !.attempt = @ + 1]

\* A conflict: read again, unless this was the last attempt.
Retry(r) ==
    IF req[r].attempt + 1 < MaxAttempts
      THEN req' = [req EXCEPT ![r] = Again(req[r])]
      ELSE End(r)

MatchesAnything(current, read) == TRUE

\* If-Match with the ETag that was read, If-None-Match: * when there was no object.
\* An ETag is a digest of the contents.
Matches(current, read) == current = read

\* The put is applied.  The answer may be lost: the S3 client then repeats the put and
\* gets a conflict of its own making, or the call ends with an error.
Put(r) ==
    LET q == req[r]
    IN  /\ At(r, "put")
        /\ Matches(stored, q.copy)
        /\ stored' = Updated(Contents(q.copy), q.kind, q.record)
        /\ \/ End(r) /\ acked' = acked \cup {[kind |-> q.kind, record |-> q.record]}
           \/ End(r) /\ UNCHANGED acked
           \/ Retry(r) /\ UNCHANGED acked
        /\ UNCHANGED <<clock, calls, known>>

\* PreconditionFailed, or ConditionalRequestConflict while another put is under way.
Conflict(r) ==
    /\ At(r, "put")
    /\ Retry(r)
    /\ UNCHANGED <<clock, stored, calls, acked, known>>

\* Any other error, the three seconds' deadline, or the client goes away.
Fails(r) ==
    /\ req[r] # None
    /\ End(r)
    /\ UNCHANGED <<clock, stored, calls, acked, known>>

Restart ==
    /\ \E r \in Requests : req[r] # None
    /\ req' = [r \in Requests |-> None]
    /\ UNCHANGED <<clock, stored, calls, acked, known>>

Tick ==
    /\ clock < MaxTime
    /\ clock' = clock + 1
    /\ UNCHANGED <<stored, req, calls, acked, known>>

Step(r) ==
    \/ \E s \in Slugs, u \in Email : RecordUpload(r, s, u)
    \/ \E s \in Slugs, u, o \in Email : RecordView(r, s, u, o)
    \/ readManifest(r)
    \/ Put(r)
    \/ Conflict(r)
    \/ Fails(r)

Next ==
    \/ \E r \in Requests : Step(r)
    \/ Restart
    \/ Tick

Spec == Init /\ [][Next]_vars

-----------------------------------------------------------------------------
(* Properties.                                                             *)

\* mergeActivity "keeps one entry per artifact", however many requests record it.
OnePerSlug ==
    \A k \in Kinds : \A p, o \in Contents(stored)[k] : p.slug = o.slug => p = o

\* A call that reported success is never undone by another request's put: its artifact
\* is listed, at the instant the call was stamped or at a later one (updateManifest).
NothingLost ==
    \A c \in acked :
        \E o \in Contents(stored)[c.kind] :
            o.slug = c.record.slug /\ o.at >= c.record.at

\* "Never use the viewer's email as the owner" (UserManifest.RecordView): the owner a
\* view shows was named by the artifact, or by an upload of it from this browser.
OwnersKnown ==
    \A p \in Contents(stored)["views"] :
        p.owner # None => <<p.slug, p.owner>> \in known

\* What a stored manifest is, whatever copies are merged and put back: well-formed, with
\* one entry per artifact, and owners that were told.
ManifestTrue == TypeOK /\ OnePerSlug /\ OwnersKnown

\* The abstract log: for every artifact, the instant of its latest upload and view.
Latest(m, k, s) ==
    LET own == {p \in m[k] : p.slug = s}
    IN  IF own = {} THEN None ELSE Newest(own).at

latest == [k \in Kinds |-> [s \in Slugs |-> Latest(Contents(stored), k, s)]]

Log == INSTANCE ActivityLog WITH last <- latest

\* Read, merge and conditional put amount to one atomic step that only moves one
\* artifact's latest instant forwards ("without allowing a delayed writer to move its
\* last-viewed time backwards", activity.go).
ImplementsLog == Log!Spec

=============================================================================
