------------------------------ MODULE Comments ------------------------------
(***************************************************************************)
(* Comment threads on one artifact slug: comments.Service, the handlers    *)
(* that call it, and the S3 objects it keeps, one JSON object per comment. *)
(* Every change of an existing comment is a GetObject, a check, and an     *)
(* unconditional PutObject of the whole record; requests run concurrently, *)
(* so each storage call is a step of its own.  Deleting the artifact lists *)
(* and deletes the comment objects one by one, also concurrently.          *)
(***************************************************************************)
EXTENDS Naturals, FiniteSets

CONSTANTS
    Requests,     \* slots for requests in flight
    Users,        \* e-mail addresses, taken up to strings.EqualFold
    Texts,        \* comment texts that pass validateBody
    Ids,          \* comment ids newID can draw
    Pages,        \* pages of a site published at the slug
    File,         \* the resource "": a single file, every page of a site
    None,         \* an absent object, user or text
    MaxUploads,   \* bound: uploads to the slug
    MaxWork       \* bound: uploads, comments ever stored and requests in flight, together

Resources == Pages \cup {File}
Body      == [by: Users, text: Texts]

Comment ==
    [parent:   Ids \cup {None},
     author:   Users,
     body:     Body \cup {None},
     edited:   Users \cup {None},
     deleted:  Users \cup {None},
     resolved: Users \cup {None},
     resource: Resources,
     version:  1..MaxUploads]

Announced == {"create", "reply", "resolve", "reopen"}
Ops       == Announced \cup {"edit", "delete", "purge"}

ASSUME CommentsAssumption ==
    /\ MaxUploads \in Nat
    /\ MaxWork \in Nat
    /\ IsFiniteSet(Ids)
    /\ IsFiniteSet(Requests)
    /\ None \notin Users
    /\ None \notin Ids
    /\ None \notin Body
    /\ None \notin Comment
    /\ File \notin Pages

VARIABLES
    artifact,   \* the version stored at each resource, 0 if none
    uploads,    \* versions handed out so far
    store,      \* the comment objects under _comments/<slug>/
    created,    \* history: each comment as first stored
    req         \* the requests in flight

vars == <<artifact, uploads, store, created, req>>

Request ==
    [step:   {"load", "write", "emit", "list", "purge"},
     op:     Ops,
     actor:  Users,
     id:     Ids \cup {None},     \* the comment to load, then the one to write
     body:   Body \cup {None},
     read:   Comment \cup {None}, \* the record GetObject returned, until the put
     copy:   Comment \cup {None}, \* the record to put
     version: 0..MaxUploads,      \* what commentArtifactContext returned
     queue:  SUBSET Ids]          \* DeleteComments: listed, not yet deleted

ASSUME RequestAssumption == None \notin Request

TypeOK ==
    /\ artifact \in [Resources -> 0..MaxUploads]
    /\ uploads \in 0..MaxUploads
    /\ store \in [Ids -> Comment \cup {None}]
    /\ created \in [Ids -> Comment \cup {None}]
    /\ req \in [Requests -> Request \cup {None}]

Init ==
    /\ artifact = [x \in Resources |-> 0]
    /\ uploads = 0
    /\ store = [i \in Ids |-> None]
    /\ created = [i \in Ids |-> None]
    /\ req = [r \in Requests |-> None]

-----------------------------------------------------------------------------
(* What the service decides from the comment it has just read.             *)

IsRoot(c) == c.parent = None

\* Mutants, here and below: the definition that follows, with a plausible bug.
EditedElsewhere(c, u, b)    == [c EXCEPT !.body = b, !.edited = u, !.resource = File]

RepliableAny(c)             == c.deleted = None /\ c.resolved = None
MutableAgain(c, u)          == c.author = u

\* Service.Reply takes only an open, undeleted root.
Repliable(c) == IsRoot(c) /\ c.deleted = None /\ c.resolved = None

\* commentForMutation: Edit and Delete are the author's, and never on a tombstone.
Mutable(c, u) == c.deleted = None /\ c.author = u

\* Service.Resolve changes an undeleted root; asking for the state it has is a no-op.
Resolvable(c, resolved) ==
    /\ IsRoot(c)
    /\ c.deleted = None
    /\ resolved = (c.resolved = None)

NewComment(parent, u, b, x, v) ==
    [parent |-> parent, author |-> u, body |-> b, edited |-> None,
     deleted |-> None, resolved |-> None, resource |-> x, version |-> v]

EditedCopy(c, u, b)   == [c EXCEPT !.body = b, !.edited = u]
Tombstone(c, u)       == [c EXCEPT !.body = None, !.deleted = u]
WithResolution(c, u)  == [c EXCEPT !.resolved = u]

\* newID draws an id no stored comment has had and no other request holds.
FreshIds ==
    {i \in Ids : created[i] = None /\ \A r \in Requests : req[r] = None \/ req[r].id # i}

\* commentArtifactContext: a file at the slug hides the pages of a site there.
ResourceFor(page) == IF artifact[File] # 0 THEN File ELSE page

At(r, step, op) == req[r] # None /\ req[r].step = step /\ req[r].op = op

Call(step, op, u, i, b, c, v) ==
    [step |-> step, op |-> op, actor |-> u, id |-> i, body |-> b,
     read |-> None, copy |-> c, version |-> v, queue |-> {}]

End(r) == req' = [req EXCEPT ![r] = None]

\* The request goes on to put c under i, because of the comment it has read.
Prepare(r, i, c) ==
    LET q == req[r]
    IN  req' = [req EXCEPT ![r] =
                  [q EXCEPT !.step = "write", !.id = i, !.read = store[q.id], !.copy = c]]

\* The ids a client can have been told of; any other is refused when it is loaded.
Named == {i \in Ids : created[i] # None}

\* The room the bound leaves.
Room ==
    uploads + Cardinality(Named) + Cardinality({r \in Requests : req[r] # None}) < MaxWork

-----------------------------------------------------------------------------
(* The artifact.                                                           *)

\* A file, or a page of a site, is stored at the slug, new or overwritten.
Upload(x) ==
    /\ Room
    /\ uploads < MaxUploads
    /\ uploads' = uploads + 1
    /\ artifact' = [artifact EXCEPT ![x] = uploads + 1]
    /\ UNCHANGED <<store, created, req>>

(* The start of a request: the handler reads the artifact's context.       *)

StartCreate(r, u, t, page) ==
    LET x == ResourceFor(page)
        b == [by |-> u, text |-> t]
    IN  /\ req[r] = None
        /\ artifact[x] # 0
        /\ \E i \in FreshIds :
              req' = [req EXCEPT ![r] =
                        Call("write", "create", u, i, b,
                             NewComment(None, u, b, x, artifact[x]), artifact[x])]
        /\ UNCHANGED <<artifact, uploads, store, created>>

\* Reply, Edit, Delete and Resolve name a comment to load.
StartMutation(r, op, u, i, b, page) ==
    LET x == ResourceFor(page)
    IN  /\ req[r] = None
        /\ artifact[x] # 0
        /\ req' = [req EXCEPT ![r] = Call("load", op, u, i, b, None, artifact[x])]
        /\ UNCHANGED <<artifact, uploads, store, created>>

-----------------------------------------------------------------------------
(* GetObject and the checks on what it returned.                           *)

LoadReply(r) ==
    LET q == req[r]
        root == store[q.id]
    IN  /\ At(r, "load", "reply")
        /\ root # None
        /\ Repliable(root)
        /\ \E i \in FreshIds :
              Prepare(r, i, NewComment(q.id, q.actor, q.body, root.resource, q.version))
        /\ UNCHANGED <<artifact, uploads, store, created>>

LoadEdit(r) ==
    LET q == req[r]
        c == store[q.id]
    IN  /\ At(r, "load", "edit")
        /\ c # None
        /\ Mutable(c, q.actor)
        /\ Prepare(r, q.id, EditedCopy(c, q.actor, q.body))
        /\ UNCHANGED <<artifact, uploads, store, created>>

LoadDelete(r) ==
    LET q == req[r]
        c == store[q.id]
    IN  /\ At(r, "load", "delete")
        /\ c # None
        /\ Mutable(c, q.actor)
        /\ Prepare(r, q.id, Tombstone(c, q.actor))
        /\ UNCHANGED <<artifact, uploads, store, created>>

LoadResolve(r) ==
    LET q == req[r]
        root == store[q.id]
    IN  /\ At(r, "load", "resolve")
        /\ root # None
        /\ Resolvable(root, TRUE)
        /\ Prepare(r, q.id, WithResolution(root, q.actor))
        /\ UNCHANGED <<artifact, uploads, store, created>>

LoadReopen(r) ==
    LET q == req[r]
        root == store[q.id]
    IN  /\ At(r, "load", "reopen")
        /\ root # None
        /\ Resolvable(root, FALSE)
        /\ Prepare(r, q.id, WithResolution(root, None))
        /\ UNCHANGED <<artifact, uploads, store, created>>

\* A check refuses, the resolution already holds, or the read itself fails.
Refuse(r) ==
    /\ req[r] # None
    /\ req[r].step = "load"
    /\ End(r)
    /\ UNCHANGED <<artifact, uploads, store, created>>

-----------------------------------------------------------------------------
(* PutObject, then the observer.                                           *)

\* putComment is unconditional: the record replaces whatever is stored now.
PutComment(q) ==
    /\ store' = [store EXCEPT ![q.id] = q.copy]
    /\ created' = [created EXCEPT ![q.id] = IF @ = None THEN q.copy ELSE @]

\* What is left to do is to tell the observer.
Tell(r) == req' = [req EXCEPT ![r] = [@ EXCEPT !.step = "emit", !.read = None]]

Put(r) ==
    /\ req[r] # None
    /\ req[r].step = "write"
    /\ PutComment(req[r])
    /\ IF req[r].op \in Announced THEN Tell(r) ELSE End(r)
    /\ UNCHANGED <<artifact, uploads>>

PutFailsAnnounced(r) ==
    /\ req[r] # None
    /\ req[r].step = "write"
    /\ IF req[r].op \in Announced THEN Tell(r) ELSE End(r)
    /\ UNCHANGED <<artifact, uploads, store, created>>

\* The put returns an error; S3 may or may not have applied it.
PutFails(r) ==
    /\ req[r] # None
    /\ req[r].step = "write"
    /\ PutComment(req[r]) \/ UNCHANGED <<store, created>>
    /\ End(r)
    /\ UNCHANGED <<artifact, uploads>>

\* The observer is told of q.op by q.actor on the record q.copy.
Emit(r) ==
    /\ req[r] # None
    /\ req[r].step = "emit"
    /\ End(r)
    /\ UNCHANGED <<artifact, uploads, store, created>>

-----------------------------------------------------------------------------
(* handleDelete: the file goes first, then DeleteComments.                 *)

StartPurge(r, u) ==
    /\ req[r] = None
    /\ artifact[File] # 0
    /\ artifact' = [artifact EXCEPT ![File] = 0]
    /\ req' = [req EXCEPT ![r] = Call("list", "purge", u, None, None, None, 0)]
    /\ UNCHANGED <<uploads, store, created>>

PurgeList(r) ==
    /\ At(r, "list", "purge")
    /\ req' = [req EXCEPT ![r] = [@ EXCEPT !.step = "purge",
                                           !.queue = {i \in Ids : store[i] # None}]]
    /\ UNCHANGED <<artifact, uploads, store, created>>

PurgeOne(r) ==
    /\ At(r, "purge", "purge")
    /\ \E i \in req[r].queue :
          /\ store' = [store EXCEPT ![i] = None]
          /\ req' = [req EXCEPT ![r].queue = @ \ {i}]
    /\ UNCHANGED <<artifact, uploads, created>>

\* The queue is empty, or a list or a delete failed: logged, and the rest stays.
PurgeEnd(r) ==
    /\ At(r, "list", "purge") \/ At(r, "purge", "purge")
    /\ End(r)
    /\ UNCHANGED <<artifact, uploads, store, created>>

\* The server stops and starts again: what was in flight is gone.
Restart ==
    /\ \E r \in Requests : req[r] # None
    /\ req' = [r \in Requests |-> None]
    /\ UNCHANGED <<artifact, uploads, store, created>>

-----------------------------------------------------------------------------

Start(r) ==
    /\ Room
    /\ \E u \in Users, page \in Resources :
          \/ \E t \in Texts : StartCreate(r, u, t, page)
          \/ \E i \in Named, t \in Texts :
                \/ StartMutation(r, "reply", u, i, [by |-> u, text |-> t], page)
                \/ StartMutation(r, "edit", u, i, [by |-> u, text |-> t], page)
          \/ \E i \in Named :
                \/ StartMutation(r, "delete", u, i, None, page)
                \/ StartMutation(r, "resolve", u, i, None, page)
                \/ StartMutation(r, "reopen", u, i, None, page)
          \/ StartPurge(r, u)

Load(r) ==
    \/ LoadReply(r)
    \/ LoadEdit(r)
    \/ LoadDelete(r)
    \/ LoadResolve(r)
    \/ LoadReopen(r)
    \/ Refuse(r)

Write(r) == Put(r) \/ PutFails(r) \/ Emit(r)

Purge(r) == PurgeList(r) \/ PurgeOne(r) \/ PurgeEnd(r)

Next ==
    \/ \E x \in Resources : Upload(x)
    \/ \E r \in Requests : Start(r) \/ Load(r) \/ Write(r) \/ Purge(r)
    \/ Restart

Spec == Init /\ [][Next]_vars

-----------------------------------------------------------------------------
(* Service.List: the threads shown on a resource under a resolution filter. *)

LiveReplies(items, i) ==
    {j \in Ids : items[j] # None /\ items[j].parent = i /\ items[j].deleted = None}

ShownUndeleted(items, i, resource, filter) ==
    LET root == items[i]
    IN  /\ root # None
        /\ IsRoot(root)
        /\ root.resource \in {File, resource}
        /\ root.deleted = None
        /\ filter = "open" => root.resolved = None
        /\ filter = "only" => root.resolved # None

Shown(items, i, resource, filter) ==
    LET root == items[i]
    IN  /\ root # None
        /\ IsRoot(root)
        /\ root.resource \in {File, resource}
        /\ root.deleted = None \/ LiveReplies(items, i) # {}
        /\ filter = "open" => root.resolved = None
        /\ filter = "only" => root.resolved # None

Threads(items, resource, filter) ==
    {[root |-> i, replies |-> LiveReplies(items, i)] :
        i \in {j \in Ids : Shown(items, j, resource, filter)}}

-----------------------------------------------------------------------------
(* Properties.                                                             *)

Identity(c) == <<c.parent, c.author, c.resource, c.version>>

\* However stale the copy a request puts back, the record of an id keeps the
\* author, thread, anchor and artifact version it was created with: no write
\* lands on another comment's object (Service.Create, Reply, putComment).
IdentityKept ==
    \A i \in Ids : store[i] # None =>
        created[i] # None /\ Identity(store[i]) = Identity(created[i])

\* The words of a comment are its author's: a body, an edit mark or a deletion
\* mark stored in it never comes from anyone else, whatever the other requests
\* (commentForMutation, Edit, Delete; Resolve puts the body back as it read it).
AuthorsWords ==
    \A i \in Ids : store[i] # None =>
        /\ store[i].body # None => store[i].body.by = store[i].author
        /\ store[i].edited \in {None, store[i].author}
        /\ store[i].deleted \in {None, store[i].author}

\* A comment has a body exactly when it is not a tombstone: no interleaving of
\* whole-record puts stores a deletion mark beside the body it should have
\* cleared, or an empty comment without the mark (Service.Delete).
ClearedIffDeleted ==
    \A i \in Ids : store[i] # None => (store[i].body = None) = (store[i].deleted # None)

\* What a stored comment is, however many stale copies are put back: well-formed, with
\* the identity it was created with, its author's words, and empty exactly when deleted.
RecordsTrue == TypeOK /\ IdentityKept /\ AuthorsWords /\ ClearedIffDeleted

\* Threads are one level deep: a reply hangs off a comment that was created as a
\* root, shares its anchor, and never carries a resolution (Service.Reply, Resolve).
RepliesFlat ==
    \A i \in Ids : store[i] # None /\ ~IsRoot(store[i]) =>
        /\ store[i].resolved = None
        /\ created[store[i].parent] # None
        /\ IsRoot(created[store[i].parent])
        /\ created[store[i].parent].resource = store[i].resource

\* No live comment is lost from view: as long as its root object exists, even as a
\* tombstone, the unfiltered list of its page shows it in exactly one thread
\* (Service.List, Service.Delete).
LiveCommentsListed ==
    \A i \in Ids :
        LET c == store[i]
            root == IF IsRoot(c) THEN i ELSE c.parent
        IN  c # None /\ c.deleted = None /\ store[root] # None =>
              Cardinality({t \in Threads(store, c.resource, "include") :
                             i = t.root \/ i \in t.replies}) = 1

\* The observer hears only of what was persisted: when it is told, the comment has
\* been stored with that identity, a new one by that actor, and a resolution is of a
\* root ("Activity describes a comment change after it was persisted").
ActivityPersisted ==
    \A r \in Requests :
        LET q == req[r]
        IN  q # None /\ q.step = "emit" =>
              /\ created[q.id] # None
              /\ Identity(created[q.id]) = Identity(q.copy)
              /\ q.op \in {"create", "reply"} => q.copy.author = q.actor
              /\ IsRoot(q.copy) = (q.op # "reply")

\* What the requests about to put have read of comment i.
Sights ==
    [i \in Ids |->
        {req[r].read : r \in {s \in Requests :
            /\ req[s] # None /\ req[s].step = "write" /\ req[s].read # None
            /\ i = IF req[s].op = "reply" THEN req[s].copy.parent ELSE req[s].id}}]

Board == INSTANCE CommentBoard WITH
            board <- store, sights <- Sights, Versions <- 1..MaxUploads

\* Whatever overlaps, every change of the store is one whole operation, checked, on a
\* comment its request has seen: no put mixes the operations of two requests, skips a
\* check, or stands on anything older than its own read (Service, s3Store).
ImplementsBoard == Board!BoardSpec

=============================================================================
