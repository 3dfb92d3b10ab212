--------------------------- MODULE CommentsProofs ---------------------------
(***************************************************************************)
(* Proofs about Comments for every number of requests, users, texts and    *)
(* ids.  The state invariants of the runs are not inductive: a stale copy  *)
(* held by a request says what the store will hold next.  IInv therefore   *)
(* speaks of the copies in flight as well as of the stored records.        *)
(***************************************************************************)
EXTENDS Comments, FiniteSetTheorems, TLAPS

\* A record whose words, marks and resolution fit together.
WellWorded(c) ==
    /\ c.body # None => c.body.by = c.author
    /\ c.edited \in {None, c.author}
    /\ c.deleted \in {None, c.author}
    /\ (c.body = None) = (c.deleted # None)
    /\ ~IsRoot(c) => c.resolved = None

\* In a history h of first versions: a root, or a reply under a comment created as
\* a root with the same anchor.
Rooted(h, c) ==
    \/ IsRoot(c)
    \/ /\ h[c.parent] # None
       /\ IsRoot(h[c.parent])
       /\ h[c.parent].resource = c.resource

\* A later record of a comment already stored once.
Known(h, i, c) ==
    /\ h[i] # None
    /\ Identity(c) = Identity(h[i])
    /\ WellWorded(c)

Drafts == {"create", "reply"}

SoundLoad(q) ==
    /\ q.op \in {"reply", "edit", "delete", "resolve", "reopen"}
    /\ q.id \in Ids
    /\ q.version \in 1..MaxUploads
    /\ q.op \in {"reply", "edit"} => q.body \in Body /\ q.body.by = q.actor

SoundWrite(h, q) ==
    /\ q.op # "purge"
    /\ q.id \in Ids
    /\ q.copy \in Comment
    /\ WellWorded(q.copy)
    /\ IF q.op \in Drafts
         THEN h[q.id] = None /\ Rooted(h, q.copy) /\ q.copy.author = q.actor
         ELSE Known(h, q.id, q.copy)
    /\ q.op \in Announced => IsRoot(q.copy) = (q.op # "reply")

SoundEmit(h, q) ==
    /\ q.id \in Ids
    /\ q.copy \in Comment
    /\ h[q.id] # None
    /\ Identity(h[q.id]) = Identity(q.copy)
    /\ q.op \in Announced
    /\ q.op \in Drafts => q.copy.author = q.actor
    /\ IsRoot(q.copy) = (q.op # "reply")

Sound(h, q) ==
    /\ q.step = "load" => SoundLoad(q)
    /\ q.step = "write" => SoundWrite(h, q)
    /\ q.step = "emit" => SoundEmit(h, q)

\* A request about to store a comment under a new id.
Drafting(q) == q # None /\ q.step = "write" /\ q.op \in Drafts

IInv ==
    /\ TypeOK
    /\ \A i \in Ids : created[i] # None => Rooted(created, created[i])
    /\ \A i \in Ids : store[i] # None => Known(created, i, store[i])
    /\ \A r \in Requests : req[r] # None => Sound(created, req[r])
    /\ \A r, s \in Requests :
          r # s /\ Drafting(req[r]) /\ Drafting(req[s]) => req[r].id # req[s].id

-----------------------------------------------------------------------------

\* Nothing is stored or in flight at first.
LEMMA InitIInv == Init => IInv
BY CommentsAssumption DEF Init, IInv, TypeOK, Drafting

\* A step that leaves the history alone, at most removes stored comments, and puts
\* a sound request, or none, in one slot.
LEMMA SlotStep ==
    ASSUME IInv, NEW r \in Requests, NEW q \in Request \cup {None},
           req' = [req EXCEPT ![r] = q],
           created' = created,
           store' \in [Ids -> Comment \cup {None}],
           \A i \in Ids : store'[i] \in {store[i], None},
           artifact' \in [Resources -> 0..MaxUploads],
           uploads' \in 0..MaxUploads,
           q # None => Sound(created, q),
           Drafting(q) => \A s \in Requests : req[s] = None \/ req[s].id # q.id
    PROVE  IInv'
<1>1. TypeOK'
  BY DEF IInv, TypeOK
<1>2. (\A i \in Ids : created[i] # None => Rooted(created, created[i]))'
  BY DEF IInv, Rooted
<1>3. (\A i \in Ids : store[i] # None => Known(created, i, store[i]))'
  BY DEF IInv, Known
<1>4. ASSUME NEW s \in Requests, req'[s] # None
      PROVE  Sound(created', req'[s])
  <2>1. CASE s = r
    <3>1. req'[s] = q /\ q # None
      BY <1>4, <2>1 DEF IInv, TypeOK
    <3>2. QED
      BY <3>1 DEF Sound, SoundLoad, SoundWrite, SoundEmit, Known, Rooted
  <2>2. CASE s # r
    <3>1. req'[s] = req[s] /\ Sound(created, req[s])
      BY <1>4, <2>2 DEF IInv, TypeOK
    <3>2. QED
      BY <3>1 DEF Sound, SoundLoad, SoundWrite, SoundEmit, Known, Rooted
  <2>3. QED
    BY <2>1, <2>2
<1>5. ASSUME NEW s \in Requests, NEW t \in Requests, s # t,
             Drafting(req'[s]), Drafting(req'[t])
      PROVE  req'[s].id # req'[t].id
  <2>1. \A p \in Requests : req'[p] = IF p = r THEN q ELSE req[p]
    BY DEF IInv, TypeOK
  <2>2. CASE s = r
    BY <1>5, <2>1, <2>2 DEF Drafting
  <2>3. CASE t = r
    BY <1>5, <2>1, <2>3 DEF Drafting
  <2>4. CASE s # r /\ t # r
    BY <1>5, <2>1, <2>4 DEF IInv
  <2>5. QED
    BY <2>2, <2>3, <2>4
<1>6. QED
  BY <1>1, <1>2, <1>3, <1>4, <1>5 DEF IInv, Drafting, Sound, SoundLoad, SoundWrite,
     SoundEmit, Known, Rooted

\* Starting, refusing and ending requests never touch a stored comment, except
\* that a purge removes some.
LEMMA EndStep ==
    ASSUME IInv, NEW r \in Requests, End(r), UNCHANGED <<artifact, uploads, store, created>>
    PROVE  IInv'
<1>1. store \in [Ids -> Comment \cup {None}] /\ artifact \in [Resources -> 0..MaxUploads]
        /\ uploads \in 0..MaxUploads
  BY DEF IInv, TypeOK
<1>2. ~Drafting(None)
  BY DEF Drafting
<1>3. QED
  BY <1>1, <1>2, SlotStep DEF End

\* A new thread's draft is a sound request under an id nobody holds.
LEMMA CreateStep ==
    ASSUME IInv, NEW r \in Requests, NEW u \in Users, NEW t \in Texts,
           NEW page \in Resources, StartCreate(r, u, t, page)
    PROVE  IInv'
<1> DEFINE x == ResourceFor(page)
           b == [by |-> u, text |-> t]
           c == NewComment(None, u, b, x, artifact[x])
<1>1. PICK i \in FreshIds :
        req' = [req EXCEPT ![r] = Call("write", "create", u, i, b, c, artifact[x])]
  BY DEF StartCreate
<1> DEFINE q == Call("write", "create", u, i, b, c, artifact[x])
<1>3. x \in Resources /\ artifact[x] \in 1..MaxUploads /\ i \in Ids
  BY CommentsAssumption DEF StartCreate, IInv, TypeOK, ResourceFor, Resources, FreshIds
<1>4. b \in Body
  BY DEF Body
<1>5. c \in Comment
  BY <1>3, <1>4 DEF Comment, NewComment
<1>6. q \in Request
  BY <1>3, <1>4, <1>5 DEF Call, Request, Ops, Announced
<1>7. Sound(created, q)
  BY <1>3, <1>4, <1>5, CommentsAssumption
     DEF Call, Sound, SoundWrite, WellWorded, Rooted, IsRoot, NewComment, FreshIds, Drafts, Announced
<1>8. \A s \in Requests : req[s] = None \/ req[s].id # q.id
  BY DEF FreshIds, Call
<1>9. QED
  BY <1>1, <1>6, <1>7, <1>8, SlotStep DEF StartCreate, IInv, TypeOK

\* A request that names a comment to load has read nothing yet.
LEMMA MutationStep ==
    ASSUME IInv, NEW r \in Requests, NEW u \in Users, NEW i \in Ids, NEW page \in Resources,
           NEW op \in {"reply", "edit", "delete", "resolve", "reopen"},
           NEW b \in Body \cup {None},
           op \in {"reply", "edit"} => b \in Body /\ b.by = u,
           StartMutation(r, op, u, i, b, page)
    PROVE  IInv'
<1> DEFINE x == ResourceFor(page)
           q == Call("load", op, u, i, b, None, artifact[x])
<1>1. artifact[x] \in 1..MaxUploads
  BY CommentsAssumption DEF StartMutation, IInv, TypeOK, ResourceFor, Resources
<1>2. q \in Request
  BY <1>1 DEF Call, Request, Ops, Announced
<1>3. Sound(created, q) /\ ~Drafting(q)
  BY <1>1 DEF Call, Sound, SoundLoad, Drafting
<1>4. QED
  BY <1>2, <1>3, SlotStep DEF StartMutation, IInv, TypeOK

\* What a request turns into when it has read d and is to put c under i.
Ready(p, i, d, c) == [p EXCEPT !.step = "write", !.id = i, !.read = d, !.copy = c]

LEMMA ReadyRequest ==
    ASSUME NEW p \in Request, NEW i \in Ids, NEW d \in Comment \cup {None}, NEW c \in Comment
    PROVE  /\ Ready(p, i, d, c) \in Request
           /\ Ready(p, i, d, c).step = "write" /\ Ready(p, i, d, c).op = p.op
           /\ Ready(p, i, d, c).actor = p.actor /\ Ready(p, i, d, c).id = i
           /\ Ready(p, i, d, c).read = d /\ Ready(p, i, d, c).copy = c
BY DEF Ready, Request

\* A reply's draft is rooted in a comment that was created as a root.
LEMMA ReplyStep ==
    ASSUME IInv, NEW r \in Requests, LoadReply(r)
    PROVE  IInv'
<1> DEFINE p == req[r]
           root == store[p.id]
           c(i) == NewComment(p.id, p.actor, p.body, root.resource, p.version)
           q(i) == Ready(p, i, root, c(i))
<1>1. PICK i \in FreshIds : req' = [req EXCEPT ![r] = q(i)]
  BY DEF LoadReply, Prepare, Ready
<1>2. p \in Request /\ p.op = "reply" /\ SoundLoad(p) /\ i \in Ids
  BY DEF LoadReply, At, IInv, TypeOK, Sound, FreshIds
<1>3. root \in Comment /\ Known(created, p.id, root) /\ IsRoot(root)
  BY <1>2 DEF LoadReply, IInv, TypeOK, SoundLoad, Repliable
<1>4. c(i) \in Comment
  BY <1>2, <1>3 DEF Comment, NewComment, SoundLoad, Request
<1>5. q(i) \in Request
  BY <1>2, <1>3, <1>4, ReadyRequest
<1>6. WellWorded(c(i)) /\ ~IsRoot(c(i))
  BY <1>2, <1>4, CommentsAssumption DEF WellWorded, NewComment, IsRoot, SoundLoad
<1>7. Rooted(created, c(i))
  BY <1>2, <1>3 DEF Rooted, NewComment, Known, Identity, IsRoot, SoundLoad
<1>8. q(i).op = "reply" /\ q(i).id = i /\ q(i).copy = c(i) /\ q(i).step = "write"
        /\ c(i).author = q(i).actor /\ created[i] = None
  <2>1. /\ q(i).op = p.op /\ q(i).id = i /\ q(i).copy = c(i) /\ q(i).step = "write"
        /\ q(i).actor = p.actor
    BY <1>2, <1>3, <1>4, ReadyRequest
  <2>. QED BY <1>2, <2>1 DEF NewComment, FreshIds
<1>9. Sound(created, q(i))
  <2> HIDE DEF c, q
  <2>1. SoundWrite(created, q(i))
    BY <1>2, <1>4, <1>6, <1>7, <1>8 DEF SoundWrite, Drafts, IsRoot
  <2>2. QED
    BY <1>8, <2>1 DEF Sound
<1>10. \A s \in Requests : req[s] = None \/ req[s].id # q(i).id
  BY <1>8 DEF FreshIds
<1>11. QED
  BY <1>1, <1>5, <1>9, <1>10, SlotStep DEF LoadReply, IInv, TypeOK

\* The steps that change a loaded comment: the copy keeps the identity it was read with.
LEMMA ChangeStep ==
    ASSUME IInv, NEW r \in Requests, NEW c,
           req[r] # None, req[r].step = "load",
           req[r].op \in {"edit", "delete", "resolve", "reopen"},
           store[req[r].id] # None,
           c \in Comment, WellWorded(c), Identity(c) = Identity(store[req[r].id]),
           req[r].op \in {"resolve", "reopen"} => IsRoot(c),
           Prepare(r, req[r].id, c),
           UNCHANGED <<artifact, uploads, store, created>>
    PROVE  IInv'
<1> DEFINE p == req[r]
           q == Ready(p, p.id, store[p.id], c)
<1>1. p \in Request /\ SoundLoad(p)
  BY DEF IInv, TypeOK, Sound
<1>2. q \in Request /\ q.op = p.op /\ q.id = p.id /\ q.copy = c /\ q.step = "write"
  <2>1. p.id \in Ids /\ store[p.id] \in Comment \cup {None}
    BY <1>1 DEF SoundLoad, IInv, TypeOK
  <2>. QED BY <1>1, <2>1, ReadyRequest
<1>3. Known(created, p.id, c)
  BY <1>1 DEF IInv, Known, SoundLoad
<1>4. Sound(created, q) /\ ~Drafting(q)
  BY <1>1, <1>2, <1>3 DEF Sound, SoundWrite, SoundLoad, Drafting, Drafts, Announced
<1>5. req' = [req EXCEPT ![r] = q]
  BY DEF Prepare, Ready
<1>6. QED
  BY <1>2, <1>4, <1>5, SlotStep DEF IInv, TypeOK

\* Every check on a loaded comment leaves a sound request, or none.
LEMMA LoadStep ==
    ASSUME IInv, NEW r \in Requests, Load(r)
    PROVE  IInv'
<1> DEFINE p == req[r]
           c == store[p.id]
<1> SUFFICES ASSUME p # None, p.step = "load"
             PROVE  IInv'
  BY DEF Load, LoadReply, LoadEdit, LoadDelete, LoadResolve, LoadReopen, Refuse, At
<1>1. p \in Request /\ SoundLoad(p)
  BY DEF IInv, TypeOK, Sound
<1>2. c # None => c \in Comment /\ WellWorded(c)
  BY <1>1 DEF IInv, TypeOK, SoundLoad, Known
<1>3. CASE LoadReply(r)
  BY <1>3, ReplyStep
<1>4. CASE LoadEdit(r)
  <2> DEFINE d == EditedCopy(c, p.actor, p.body)
  <2>1. c # None /\ Mutable(c, p.actor) /\ p.op = "edit"
    BY <1>4 DEF LoadEdit, At
  <2>2. p.body \in Body /\ p.body.by = p.actor /\ p.actor \in Users
    BY <1>1, <2>1 DEF SoundLoad, Request
  <2>3. d \in Comment /\ Identity(d) = Identity(c)
    BY <1>2, <2>1, <2>2 DEF EditedCopy, Comment, Identity
  <2>4. WellWorded(d)
    BY <1>2, <2>1, <2>2, CommentsAssumption DEF EditedCopy, WellWorded, Mutable, IsRoot, Comment
  <2>5. QED
    BY <1>4, <2>1, <2>3, <2>4, ChangeStep DEF LoadEdit
<1>5. CASE LoadDelete(r)
  <2> DEFINE d == Tombstone(c, p.actor)
  <2>1. c # None /\ Mutable(c, p.actor) /\ p.op = "delete" /\ p.actor \in Users
    BY <1>1, <1>5 DEF LoadDelete, At, Request
  <2>2. d \in Comment /\ Identity(d) = Identity(c)
    BY <1>2, <2>1 DEF Tombstone, Comment, Identity
  <2>3. WellWorded(d)
    BY <1>2, <2>1, CommentsAssumption DEF Tombstone, WellWorded, Mutable, IsRoot, Comment
  <2>4. QED
    BY <1>5, <2>1, <2>2, <2>3, ChangeStep DEF LoadDelete
<1>6. ASSUME NEW u \in Users \cup {None}, c # None, IsRoot(c),
             p.op \in {"resolve", "reopen"}, Prepare(r, p.id, WithResolution(c, u)),
             UNCHANGED <<artifact, uploads, store, created>>
      PROVE  IInv'
  <2> DEFINE d == WithResolution(c, u)
  <2>1. d \in Comment /\ Identity(d) = Identity(c)
    BY <1>2, <1>6 DEF WithResolution, Comment, Identity
  <2>2. WellWorded(d) /\ IsRoot(d)
    BY <1>2, <1>6 DEF WithResolution, WellWorded, IsRoot, Comment
  <2>3. QED
    BY <1>6, <2>1, <2>2, ChangeStep
<1>7. CASE LoadResolve(r)
  BY <1>1, <1>6, <1>7 DEF LoadResolve, At, Resolvable, Request
<1>8. CASE LoadReopen(r)
  BY <1>6, <1>8 DEF LoadReopen, At, Resolvable
<1>9. CASE Refuse(r)
  BY <1>9, EndStep DEF Refuse
<1>10. QED
  BY <1>3, <1>4, <1>5, <1>7, <1>8, <1>9 DEF Load

\* putComment by a sound writer: the history gains at most its own new comment, and
\* nothing another request relies on changes.
LEMMA PutStep ==
    ASSUME IInv, NEW r \in Requests, req[r] # None, req[r].step = "write",
           PutComment(req[r]),
           (Tell(r) /\ req[r].op \in Announced) \/ End(r),
           UNCHANGED <<artifact, uploads>>
    PROVE  IInv'
<1> DEFINE p == req[r]
<1>1. p \in Request /\ SoundWrite(created, p)
  BY DEF IInv, TypeOK, Sound
<1>2. p.copy \in Comment /\ p.copy # None /\ p.id \in Ids
  BY <1>1, CommentsAssumption DEF SoundWrite
<1>3. /\ \A i \in Ids : created[i] # None => created'[i] = created[i]
      /\ \A i \in Ids : i # p.id => created'[i] = created[i] /\ store'[i] = store[i]
      /\ store'[p.id] = p.copy
      /\ created'[p.id] # None
      /\ created'[p.id] = IF created[p.id] = None THEN p.copy ELSE created[p.id]
  BY <1>2 DEF PutComment, IInv, TypeOK
<1>4. \A s \in Requests : s # r => req'[s] = req[s]
  BY DEF End, Tell, IInv, TypeOK
<1> DEFINE told == [p EXCEPT !.step = "emit", !.read = None]
<1>5. req'[r] = None \/ (req'[r] = told /\ p.op \in Announced)
  <2>1. req \in [Requests -> Request \cup {None}]
    BY DEF IInv, TypeOK
  <2>2. CASE Tell(r) /\ p.op \in Announced
    BY <2>1, <2>2 DEF Tell
  <2>3. CASE req' = [req EXCEPT ![r] = None]
    BY <2>1, <2>3
  <2>. QED BY <2>2, <2>3 DEF End
<1>6. told \in Request
  BY <1>1 DEF Request
<1>7. TypeOK'
  <2>1. req' \in [Requests -> Request \cup {None}]
    BY <1>5, <1>6 DEF End, Tell, IInv, TypeOK
  <2>2. store' \in [Ids -> Comment \cup {None}] /\ created' \in [Ids -> Comment \cup {None}]
    BY <1>2 DEF PutComment, IInv, TypeOK
  <2>3. QED
    BY <2>1, <2>2 DEF IInv, TypeOK
<1>8. \A c \in Comment : Rooted(created, c) => Rooted(created', c)
  BY <1>3 DEF Rooted, Comment, IsRoot
<1>9. \A i \in Ids, c \in Comment : Known(created, i, c) => Known(created', i, c)
  BY <1>3 DEF Known
<1>10. (\A i \in Ids : created[i] # None => Rooted(created, created[i]))'
  <2> SUFFICES ASSUME NEW i \in Ids, created'[i] # None
               PROVE  Rooted(created', created'[i])
    OBVIOUS
  <2>1. CASE created[i] # None
    BY <1>3, <1>8, <2>1 DEF IInv, TypeOK
  <2>2. CASE created[i] = None
    <3>1. i = p.id /\ created'[i] = p.copy /\ Rooted(created, p.copy)
      BY <1>1, <1>3, <2>2 DEF SoundWrite, Known
    <3>2. QED
      BY <1>2, <1>8, <3>1
  <2>3. QED
    BY <2>1, <2>2
<1>11. Known(created', p.id, p.copy)
  BY <1>1, <1>3 DEF SoundWrite, Known
<1>12. (\A i \in Ids : store[i] # None => Known(created, i, store[i]))'
  <2> SUFFICES ASSUME NEW i \in Ids, store'[i] # None
               PROVE  Known(created', i, store'[i])
    OBVIOUS
  <2>1. CASE i = p.id
    BY <1>3, <1>11, <2>1
  <2>2. CASE i # p.id
    BY <1>3, <1>9, <2>2 DEF IInv, TypeOK
  <2>3. QED
    BY <2>1, <2>2
<1>13. ASSUME NEW s \in Requests, req'[s] # None
       PROVE  Sound(created', req'[s])
  <2>1. CASE s = r
    <3>1. req'[s] = told /\ p.op \in Announced
      BY <1>5, <1>13, <2>1
    <3>2. /\ req'[s].step = "emit" /\ req'[s].op = p.op /\ req'[s].id = p.id
          /\ req'[s].copy = p.copy /\ req'[s].actor = p.actor
      BY <1>1, <3>1 DEF Request
    <3>3. SoundEmit(created', req'[s])
      BY <1>1, <1>11, <3>1, <3>2 DEF SoundWrite, SoundEmit, Known, Drafts
    <3>4. QED
      BY <3>2, <3>3 DEF Sound
  <2>2. CASE s # r
    <3> DEFINE q == req[s]
    <3>1. req'[s] = q /\ q # None /\ q \in Request /\ Sound(created, q)
      BY <1>4, <1>13, <2>2 DEF IInv, TypeOK
    <3>2. q.step = "write" => SoundWrite(created', q)
      <4> SUFFICES ASSUME q.step = "write"
                   PROVE  SoundWrite(created', q)
        OBVIOUS
      <4>1. SoundWrite(created, q)
        BY <3>1 DEF Sound
      <4>2. CASE q.op \in Drafts
        <5>1. q.id # p.id
          BY <1>1, <2>2, <3>1, <4>1, <4>2 DEF IInv, Drafting, SoundWrite, Known
        <5>2. QED
          BY <1>3, <1>8, <4>1, <4>2, <5>1 DEF SoundWrite
      <4>3. CASE q.op \notin Drafts
        BY <1>9, <4>1, <4>3 DEF SoundWrite
      <4>4. QED
        BY <4>2, <4>3
    <3>3. q.step = "emit" => SoundEmit(created', q)
      BY <1>3, <3>1 DEF Sound, SoundEmit
    <3>4. q.step = "load" => SoundLoad(q)
      BY <3>1 DEF Sound
    <3>5. QED
      BY <3>1, <3>2, <3>3, <3>4 DEF Sound, SoundLoad
  <2>3. QED
    BY <2>1, <2>2
<1>14. ASSUME NEW s \in Requests, NEW t \in Requests, s # t,
              Drafting(req'[s]), Drafting(req'[t])
       PROVE  req'[s].id # req'[t].id
  <2>1. ~Drafting(req'[r])
    BY <1>1, <1>5 DEF Drafting, Request
  <2>2. QED
    BY <1>4, <1>14, <2>1 DEF IInv
<1>15. QED
  BY <1>7, <1>10, <1>12, <1>13, <1>14 DEF IInv, Drafting

\* The put, its failure and the observer's call keep the invariant.
LEMMA WriteStep ==
    ASSUME IInv, NEW r \in Requests, Write(r)
    PROVE  IInv'
<1>1. CASE Put(r)
  BY <1>1, PutStep DEF Put
<1>2. CASE PutFails(r)
  <2>1. CASE PutComment(req[r])
    BY <1>2, <2>1, PutStep DEF PutFails
  <2>2. CASE UNCHANGED <<store, created>>
    BY <1>2, <2>2, EndStep DEF PutFails
  <2>3. QED
    BY <1>2, <2>1, <2>2 DEF PutFails
<1>3. CASE Emit(r)
  BY <1>3, EndStep DEF Emit
<1>4. QED
  BY <1>1, <1>2, <1>3 DEF Write

\* Listing and deleting an artifact's comments keep the invariant.
LEMMA PurgeStep ==
    ASSUME IInv, NEW r \in Requests, Purge(r)
    PROVE  IInv'
<1> DEFINE p == req[r]
<1> SUFFICES ASSUME p # None, p.op = "purge", p.step \in {"list", "purge"}
             PROVE  IInv'
  BY DEF Purge, PurgeList, PurgeOne, PurgeEnd, At
<1>1. p \in Request
  BY DEF IInv, TypeOK
<1>2. \A q \in Request : q.step = "purge" => Sound(created, q) /\ ~Drafting(q)
  BY DEF Sound, Drafting
<1>3. CASE PurgeList(r)
  <2> DEFINE n == {i \in Ids : store[i] # None}
             l == [p EXCEPT !.step = "purge", !.queue = n]
  <2>1. req' = [req EXCEPT ![r] = l]
    BY <1>3 DEF PurgeList, IInv, TypeOK
  <2>2. [p EXCEPT !.step = "purge"] \in Request /\ n \in SUBSET Ids
    BY <1>1 DEF Request
  <2>3. l \in Request /\ l.step = "purge"
    BY <2>2 DEF Request
  <2>4. QED
    BY <1>2, <1>3, <2>1, <2>3, SlotStep DEF PurgeList, IInv, TypeOK
<1>4. CASE PurgeOne(r)
  <2>1. PICK i \in p.queue : /\ store' = [store EXCEPT ![i] = None]
                             /\ req' = [req EXCEPT ![r].queue = @ \ {i}]
    BY <1>4 DEF PurgeOne
  <2> DEFINE l == [p EXCEPT !.queue = p.queue \ {i}]
  <2>2. l \in Request /\ l.step = "purge"
    BY <1>1, <1>4 DEF Request, PurgeOne, At
  <2>3. req' = [req EXCEPT ![r] = l]
    BY <2>1 DEF IInv, TypeOK
  <2>4. store' \in [Ids -> Comment \cup {None}] /\ \A j \in Ids : store'[j] \in {store[j], None}
    BY <1>1, <2>1 DEF IInv, TypeOK, Request
  <2>5. QED
    BY <1>2, <1>4, <2>2, <2>3, <2>4, SlotStep DEF PurgeOne, IInv, TypeOK
<1>5. CASE PurgeEnd(r)
  BY <1>5, EndStep DEF PurgeEnd
<1>6. QED
  BY <1>3, <1>4, <1>5 DEF Purge

\* Every way a request starts keeps the invariant.
LEMMA StartStep ==
    ASSUME IInv, NEW r \in Requests, Start(r)
    PROVE  IInv'
<1>1. ASSUME NEW u \in Users, StartPurge(r, u)
      PROVE  IInv'
  <2> DEFINE q == Call("list", "purge", u, None, None, None, 0)
  <2>1. q \in Request /\ Sound(created, q) /\ ~Drafting(q)
    BY CommentsAssumption DEF Call, Request, Ops, Sound, Drafting
  <2>2. artifact' \in [Resources -> 0..MaxUploads]
    <3>1. 0 \in 0..MaxUploads
      BY CommentsAssumption
    <3>2. artifact' = [artifact EXCEPT ![File] = 0] /\ artifact \in [Resources -> 0..MaxUploads]
      BY <1>1 DEF StartPurge, IInv, TypeOK
    <3>3. QED
      BY <3>1, <3>2
  <2>3. QED
    BY <1>1, <2>1, <2>2, SlotStep DEF StartPurge, IInv, TypeOK
<1>2. \A u \in Users, t \in Texts : LET b == [by |-> u, text |-> t]
                                    IN  b \in Body /\ b.by = u
  BY DEF Body
<1>3. QED
  BY <1>1, <1>2, CreateStep, MutationStep DEF Start, Named

\* The inductive invariant is kept by every step.
LEMMA NextIInv == IInv /\ [Next]_vars => IInv'
<1> SUFFICES ASSUME IInv, [Next]_vars
             PROVE  IInv'
  OBVIOUS
<1>1. CASE UNCHANGED vars
  BY <1>1 DEF vars, IInv, TypeOK
<1>2. ASSUME NEW x \in Resources, Upload(x)
      PROVE  IInv'
  <2>1. TypeOK'
    BY <1>2, CommentsAssumption DEF Upload, IInv, TypeOK
  <2>2. QED
    BY <1>2, <2>1 DEF Upload, IInv
<1>3. CASE Restart
  <2>1. TypeOK'
    BY <1>3 DEF Restart, IInv, TypeOK
  <2>2. \A r \in Requests : req'[r] = None /\ ~Drafting(req'[r])
    BY <1>3 DEF Restart, Drafting
  <2>3. QED
    BY <1>3, <2>1, <2>2 DEF Restart, IInv
<1>4. QED
  BY <1>1, <1>2, <1>3, StartStep, LoadStep, WriteStep, PurgeStep DEF Next

\* The inductive invariant holds in every reachable state.
THEOREM Invariance == Spec => []IInv
BY InitIInv, NextIInv, PTL DEF Spec

\* Type correctness, for every value of the constants.
THEOREM TypeCorrect == Spec => []TypeOK
<1>1. IInv => TypeOK
  BY DEF IInv
<1>2. QED
  BY <1>1, Invariance, PTL

\* No write lands on another comment's object, whatever the interleaving.
THEOREM IdentitySafe == Spec => []IdentityKept
<1>1. IInv => IdentityKept
  BY DEF IInv, Known, IdentityKept
<1>2. QED
  BY <1>1, Invariance, PTL

\* A comment's words and marks are its author's, whatever the interleaving.
THEOREM WordsSafe == Spec => []AuthorsWords
<1>1. IInv => AuthorsWords
  BY DEF IInv, Known, WellWorded, AuthorsWords
<1>2. QED
  BY <1>1, Invariance, PTL

\* A stored comment is empty exactly when it is marked deleted.
THEOREM TombstonesEmpty == Spec => []ClearedIffDeleted
<1>1. IInv => ClearedIffDeleted
  BY DEF IInv, Known, WellWorded, ClearedIffDeleted
<1>2. QED
  BY <1>1, Invariance, PTL

\* Threads stay one level deep and unresolved below the root.
THEOREM ThreadsFlat == Spec => []RepliesFlat
<1>1. ASSUME IInv, NEW i \in Ids, store[i] # None, ~IsRoot(store[i])
      PROVE  /\ store[i].resolved = None
             /\ created[store[i].parent] # None
             /\ IsRoot(created[store[i].parent])
             /\ created[store[i].parent].resource = store[i].resource
  <2>1. Known(created, i, store[i]) /\ Rooted(created, created[i])
    BY <1>1 DEF IInv, Known
  <2>2. store[i].parent = created[i].parent /\ store[i].resource = created[i].resource
    BY <2>1 DEF Known, Identity
  <2>3. QED
    BY <1>1, <2>1, <2>2 DEF Known, WellWorded, Rooted, IsRoot
<1>2. IInv => RepliesFlat
  BY <1>1 DEF RepliesFlat
<1>3. QED
  BY <1>2, Invariance, PTL

\* The observer is told only of comments that have been stored.
THEOREM ActivityTrue == Spec => []ActivityPersisted
<1>1. IInv => ActivityPersisted
  BY DEF IInv, Sound, SoundEmit, Drafts, ActivityPersisted
<1>2. QED
  BY <1>1, Invariance, PTL

\* However many stale copies are put back, a stored comment is what its author made it.
THEOREM RecordsSafe == Spec => []RecordsTrue
<1>1. TypeOK /\ IdentityKept /\ AuthorsWords /\ ClearedIffDeleted => RecordsTrue
  BY DEF RecordsTrue
<1>2. QED
  BY <1>1, TypeCorrect, IdentitySafe, WordsSafe, TombstonesEmpty, PTL

\* A live comment whose root is stored is shown by the unfiltered list of its page, in
\* one thread and no other, whatever writes overlapped (Service.List).
THEOREM LiveListed == Spec => []LiveCommentsListed
<1>1. ASSUME IInv, NEW i \in Ids, NEW root \in Ids, store[i] # None, store[i].deleted = None,
             root = (IF IsRoot(store[i]) THEN i ELSE store[i].parent), store[root] # None
      PROVE  Cardinality({t \in Threads(store, store[i].resource, "include") :
                            i = t.root \/ i \in t.replies}) = 1
  <2> DEFINE Listed == Threads(store, store[i].resource, "include")
             Thread(j) == [root |-> j, replies |-> LiveReplies(store, j)]
  <2>1. /\ IsRoot(store[root])
        /\ store[root].resource = store[i].resource
        /\ root # i => i \in LiveReplies(store, root)
    <3>1. CASE IsRoot(store[i])
      BY <1>1, <3>1
    <3>2. CASE ~IsRoot(store[i])
      <4>1. Known(created, i, store[i]) /\ Known(created, root, store[root])
        BY <1>1 DEF IInv
      <4>2. Rooted(created, created[i])
        BY <1>1, <4>1 DEF IInv, Known
      <4>3. created[i].parent = root /\ ~IsRoot(created[i])
        BY <1>1, <3>2, <4>1 DEF Known, Identity, IsRoot
      <4>4. IsRoot(created[root]) /\ created[root].resource = created[i].resource
        BY <4>2, <4>3 DEF Rooted
      <4>. QED BY <1>1, <3>2, <4>1, <4>4 DEF Known, Identity, IsRoot, LiveReplies
    <3>. QED BY <3>1, <3>2
  <2>2. Shown(store, root, store[i].resource, "include")
    <3>1. store[root].deleted = None \/ LiveReplies(store, root) # {}
      BY <1>1, <2>1
    <3>. QED BY <1>1, <2>1, <3>1 DEF Shown
  <2>3. Thread(root) \in Listed
    BY <2>2 DEF Threads
  <2>4. ASSUME NEW t \in Listed, i = t.root \/ i \in t.replies
        PROVE  t = Thread(root)
    <3>1. PICK j \in Ids : t = Thread(j) /\ Shown(store, j, store[i].resource, "include")
      BY DEF Threads
    <3>2. CASE i = j
      BY <1>1, <3>1, <3>2 DEF Shown
    <3>3. CASE i \in LiveReplies(store, j)
      <4>1. store[i].parent = j /\ j # None
        BY <3>3, CommentsAssumption DEF LiveReplies
      <4>. QED BY <1>1, <3>1, <4>1 DEF IsRoot
    <3>. QED BY <2>4, <3>1, <3>2, <3>3
  <2>5. {t \in Listed : i = t.root \/ i \in t.replies} = {Thread(root)}
    <3>1. i = Thread(root).root \/ i \in Thread(root).replies
      BY <2>1
    <3>. HIDE DEF Listed, Thread
    <3>. QED BY <2>3, <2>4, <3>1
  <2>. HIDE DEF Thread
  <2>. QED BY <2>5, FS_Singleton
<1>2. IInv => LiveCommentsListed
  <2>. SUFFICES ASSUME IInv, NEW i \in Ids, NEW root,
                       root = (IF IsRoot(store[i]) THEN i ELSE store[i].parent),
                       store[i] # None, store[i].deleted = None, store[root] # None
                PROVE  Cardinality({t \in Threads(store, store[i].resource, "include") :
                                      i = t.root \/ i \in t.replies}) = 1
    BY DEF LiveCommentsListed
  <2>1. root \in Ids
    BY DEF IInv, TypeOK, Comment, IsRoot
  <2>. QED BY <1>1, <2>1
<1>. QED BY <1>2, Invariance, PTL

-----------------------------------------------------------------------------
(* The refinement of CommentBoard.                                         *)

\* What request q is about to put is what one operation, with its checks, makes of the
\* comment it has read.
Prompt(q) ==
    LET c == q.read
    IN  \/ /\ q.op = "create" /\ c = None
           /\ \E t \in Texts, x \in Resources, v \in 1..MaxUploads :
                 q.copy = NewComment(None, q.actor, [by |-> q.actor, text |-> t], x, v)
        \/ /\ q.op = "reply" /\ c # None /\ Repliable(c)
           /\ \E j \in Ids, t \in Texts, v \in 1..MaxUploads :
                 q.copy = NewComment(j, q.actor, [by |-> q.actor, text |-> t], c.resource, v)
        \/ /\ q.op \notin Drafts /\ c # None
           /\ \/ /\ Mutable(c, q.actor)
                 /\ \/ \E t \in Texts : q.copy = EditedCopy(c, q.actor, [by |-> q.actor, text |-> t])
                    \/ q.copy = Tombstone(c, q.actor)
              \/ Resolvable(c, TRUE) /\ q.copy = WithResolution(c, q.actor)
              \/ Resolvable(c, FALSE) /\ q.copy = WithResolution(c, None)

Writing(q) == q # None /\ q.step = "write"

AllPrompt == \A r \in Requests : Writing(req[r]) => Prompt(req[r])

\* The comment a request about to put has read.
Of(q) == IF q.op = "reply" THEN q.copy.parent ELSE q.id

LEMMA SightsSeen ==
    ASSUME NEW i \in Ids
    PROVE  Sights[i] = {req[r].read : r \in {s \in Requests :
               Writing(req[s]) /\ req[s].read # None /\ i = Of(req[s])}}
BY DEF Sights, Writing, Of

\* Putting such a record is that operation on the board.
LEMMA PutIsPromised ==
    ASSUME TypeOK, NEW r \in Requests, Writing(req[r]), req[r].id \in Ids, Prompt(req[r]),
           req[r].op \in Drafts => store[req[r].id] = None,
           store' = [store EXCEPT ![req[r].id] = req[r].copy]
    PROVE  \E i \in Ids : Board!Operation(i)
<1> DEFINE q == req[r]
           i == q.id
           u == q.actor
           c == q.read
<1>0. u \in Users /\ i \in Ids /\ q \in Request
  BY DEF Request, TypeOK, Writing
<1>s. c # None /\ Of(q) \in Ids => c \in Sights[Of(q)]
  BY SightsSeen
<1>1. ASSUME NEW t \in Texts, NEW x \in Resources, NEW v \in 1..MaxUploads, store[i] = None,
             q.copy = NewComment(None, u, [by |-> u, text |-> t], x, v)
      PROVE  Board!Operation(i)
  <2>1. Board!Post(i, u, t, x, v)
    BY <1>1 DEF Board!Post, Board!Added, Board!Becomes, NewComment
  <2>. QED BY <1>0, <2>1 DEF Board!Operation
<1>2. ASSUME NEW j \in Ids, NEW t \in Texts, NEW v \in 1..MaxUploads, store[i] = None,
             q.op = "reply", c # None, Repliable(c),
             q.copy = NewComment(j, u, [by |-> u, text |-> t], c.resource, v)
      PROVE  Board!Operation(i)
  <2>1. Of(q) = j
    BY <1>2 DEF Of, NewComment
  <2>2. c \in Sights[j]
    BY <1>s, <1>2, <2>1
  <2>3. Board!Open(c)
    BY <1>2 DEF Board!Open, Board!Live, Repliable, IsRoot
  <2>4. Board!Added(i, j, u, t, c.resource, v)
    BY <1>2 DEF Board!Added, Board!Becomes, NewComment
  <2>5. Board!Reply(i, j, u, t, v)
    BY <2>2, <2>3, <2>4 DEF Board!Reply
  <2>. QED BY <1>0, <2>5 DEF Board!Operation
<1>3. ASSUME q.op \notin Drafts, c # None
      PROVE  c \in Sights[i]
  BY <1>0, <1>s, <1>3 DEF Of, Drafts
<1>4. ASSUME NEW t \in Texts, c \in Sights[i], c # None, Mutable(c, u),
             q.copy = EditedCopy(c, u, [by |-> u, text |-> t])
      PROVE  Board!Operation(i)
  <2>1. Board!Amend(i, c, t)
    BY <1>4 DEF Board!Amend, Board!Live, Board!Becomes, Mutable, EditedCopy
  <2>. QED BY <1>4, <2>1 DEF Board!Operation
<1>5. ASSUME c \in Sights[i], c # None, Mutable(c, u), q.copy = Tombstone(c, u)
      PROVE  Board!Operation(i)
  <2>1. Board!Withdraw(i, c)
    BY <1>5 DEF Board!Withdraw, Board!Live, Board!Becomes, Mutable, Tombstone
  <2>. QED BY <1>5, <2>1 DEF Board!Operation
<1>6. ASSUME c \in Sights[i], c # None, Resolvable(c, TRUE), q.copy = WithResolution(c, u)
      PROVE  Board!Operation(i)
  <2>1. Board!Settle(i, c, u)
    BY <1>6 DEF Board!Settle, Board!Open, Board!Live, Board!Becomes, Resolvable, WithResolution, IsRoot
  <2>. QED BY <1>0, <1>6, <2>1 DEF Board!Operation
<1>7. ASSUME c \in Sights[i], c # None, Resolvable(c, FALSE), q.copy = WithResolution(c, None)
      PROVE  Board!Operation(i)
  <2>1. Board!Reopen(i, c)
    BY <1>7 DEF Board!Reopen, Board!Live, Board!Becomes, Resolvable, WithResolution, IsRoot
  <2>. QED BY <1>7, <2>1 DEF Board!Operation
<1>8. Board!Operation(i)
  BY <1>1, <1>2, <1>3, <1>4, <1>5, <1>6, <1>7 DEF Prompt, Drafts
<1>. QED BY <1>0, <1>8

\* A request that has just begun to write holds what its operation makes of the comment
\* as it is stored.
LEMMA LoadIsPrompt ==
    ASSUME IInv, NEW r \in Requests, Start(r) \/ Load(r), Writing(req'[r])
    PROVE  /\ Prompt(req'[r])
           /\ req'[r].read # None => Of(req'[r]) \in Ids /\ req'[r].read = store[Of(req'[r])]
<1>n. PICK n : n = req'[r]
  OBVIOUS
<1> DEFINE p == req[r]
           Goal == Prompt(n) /\ (n.read # None => Of(n) \in Ids /\ n.read = store[Of(n)])
<1> SUFFICES Goal
  BY <1>n
<1>0. req \in [Requests -> Request \cup {None}]
  BY DEF IInv, TypeOK
<1>1. ASSUME NEW u \in Users, NEW t \in Texts, NEW page \in Resources, StartCreate(r, u, t, page)
      PROVE  Goal
  <2> DEFINE x == ResourceFor(page)
             b == [by |-> u, text |-> t]
  <2>1. PICK i \in FreshIds :
          req' = [req EXCEPT ![r] = Call("write", "create", u, i, b,
                                         NewComment(None, u, b, x, artifact[x]), artifact[x])]
    BY <1>1 DEF StartCreate
  <2>2. x \in Resources /\ artifact[x] \in 1..MaxUploads
    BY <1>1, CommentsAssumption DEF StartCreate, IInv, TypeOK, ResourceFor, Resources
  <2>4. n = Call("write", "create", u, i, b, NewComment(None, u, b, x, artifact[x]), artifact[x])
    BY <1>0, <1>n, <2>1
  <2>5. /\ n.op = "create" /\ n.id = i /\ n.actor = u /\ n.read = None
        /\ n.copy = NewComment(None, u, b, x, artifact[x])
    BY <2>4 DEF Call
  <2>. QED BY <2>2, <2>5 DEF Prompt
<1>2. ASSUME p # None, p.step = "load"
      PROVE  p \in Request /\ SoundLoad(p)
  BY <1>2 DEF IInv, TypeOK, Sound
<1>3. ASSUME p.op \in {"reply", "edit"}, p # None, p.step = "load"
      PROVE  \E t \in Texts : p.body = [by |-> p.actor, text |-> t]
  BY <1>2, <1>3 DEF SoundLoad, Body
<1>4. ASSUME NEW i \in Ids, NEW c \in Comment, Prepare(r, i, c), p \in Request, SoundLoad(p)
      PROVE  /\ n.op = p.op /\ n.id = i /\ n.actor = p.actor
             /\ n.read = store[p.id] /\ n.copy = c
  <2>1. n = Ready(p, i, store[p.id], c)
    BY <1>0, <1>n, <1>4 DEF Prepare, Ready
  <2>2. store[p.id] \in Comment \cup {None}
    BY <1>4 DEF SoundLoad, IInv, TypeOK
  <2>3. Ready(p, i, store[p.id], c).op = p.op /\ Ready(p, i, store[p.id], c).id = i
          /\ Ready(p, i, store[p.id], c).actor = p.actor
          /\ Ready(p, i, store[p.id], c).read = store[p.id]
          /\ Ready(p, i, store[p.id], c).copy = c
    <3>. HIDE DEF p
    <3>. QED BY <1>4, <2>2, ReadyRequest
  <2>. QED BY <2>1, <2>3
<1>5. CASE LoadReply(r)
  <2> DEFINE root == store[p.id]
             c == NewComment(p.id, p.actor, p.body, root.resource, p.version)
  <2>1. PICK i \in FreshIds : Prepare(r, i, c)
    BY <1>5 DEF LoadReply
  <2>2. p # None /\ p.step = "load" /\ p.op = "reply" /\ root # None /\ Repliable(root)
    BY <1>5 DEF LoadReply, At
  <2>3. p \in Request /\ SoundLoad(p) /\ i \in Ids /\ p.id \in Ids /\ p.version \in 1..MaxUploads
    BY <1>2, <2>2 DEF SoundLoad, FreshIds
  <2>4. PICK t \in Texts : p.body = [by |-> p.actor, text |-> t]
    BY <1>3, <2>2
  <2>5. root \in Comment /\ p.body \in Body /\ p.actor \in Users
    BY <2>2, <2>3 DEF IInv, TypeOK, SoundLoad, Request
  <2>6. c \in Comment
    BY <2>3, <2>5 DEF NewComment, Comment
  <2>7. /\ n.op = "reply" /\ n.id = i /\ n.actor = p.actor /\ n.read = root
        /\ n.copy = NewComment(p.id, p.actor, [by |-> p.actor, text |-> t],
                               root.resource, p.version)
    BY <1>4, <2>1, <2>2, <2>3, <2>4, <2>6
  <2>8. Of(n) = p.id
    BY <2>7 DEF Of, NewComment
  <2>. QED BY <2>2, <2>3, <2>7, <2>8 DEF Prompt
<1>6. ASSUME p # None, p.step = "load", p.op \notin Drafts, NEW c \in Comment,
             Prepare(r, p.id, c), store[p.id] # None
      PROVE  /\ n.op \notin Drafts /\ n.actor = p.actor /\ n.copy = c
             /\ n.read = store[p.id] /\ n.read # None
             /\ Of(n) \in Ids /\ n.read = store[Of(n)]
  <2>1. p \in Request /\ SoundLoad(p) /\ p.id \in Ids
    BY <1>2, <1>6 DEF SoundLoad
  <2>2. /\ n.op = p.op /\ n.id = p.id /\ n.actor = p.actor /\ n.read = store[p.id] /\ n.copy = c
    BY <1>4, <1>6, <2>1
  <2>. QED BY <1>6, <2>1, <2>2 DEF Of, Drafts
<1>7. ASSUME p # None, p.step = "load", store[p.id] # None
      PROVE  store[p.id] \in Comment /\ p.actor \in Users
  BY <1>2, <1>7 DEF IInv, TypeOK, SoundLoad, Request
<1>8. CASE LoadEdit(r)
  <2>1. PICK t \in Texts : p.body = [by |-> p.actor, text |-> t]
    BY <1>3, <1>8 DEF LoadEdit, At
  <2> DEFINE c == EditedCopy(store[p.id], p.actor, [by |-> p.actor, text |-> t])
  <2>2. /\ p # None /\ p.step = "load" /\ p.op = "edit" /\ store[p.id] # None
        /\ Mutable(store[p.id], p.actor) /\ Prepare(r, p.id, c)
    BY <1>8, <2>1 DEF LoadEdit, At
  <2>3. c \in Comment
    BY <1>7, <2>2 DEF EditedCopy, Comment, Body
  <2>4. /\ n.op \notin Drafts /\ n.actor = p.actor /\ n.copy = c
        /\ n.read = store[p.id] /\ n.read # None /\ Of(n) \in Ids /\ n.read = store[Of(n)]
    BY <1>6, <2>2, <2>3 DEF Drafts
  <2>. QED BY <2>2, <2>4 DEF Prompt
<1>9. CASE LoadDelete(r)
  <2> DEFINE c == Tombstone(store[p.id], p.actor)
  <2>2. /\ p # None /\ p.step = "load" /\ p.op = "delete" /\ store[p.id] # None
        /\ Mutable(store[p.id], p.actor) /\ Prepare(r, p.id, c)
    BY <1>9 DEF LoadDelete, At
  <2>3. c \in Comment
    BY <1>7, <2>2 DEF Tombstone, Comment
  <2>4. /\ n.op \notin Drafts /\ n.actor = p.actor /\ n.copy = c
        /\ n.read = store[p.id] /\ n.read # None /\ Of(n) \in Ids /\ n.read = store[Of(n)]
    BY <1>6, <2>2, <2>3 DEF Drafts
  <2>. QED BY <2>2, <2>4 DEF Prompt
<1>10. CASE LoadResolve(r)
  <2> DEFINE c == WithResolution(store[p.id], p.actor)
  <2>2. /\ p # None /\ p.step = "load" /\ p.op = "resolve" /\ store[p.id] # None
        /\ Resolvable(store[p.id], TRUE) /\ Prepare(r, p.id, c)
    BY <1>10 DEF LoadResolve, At
  <2>3. c \in Comment
    BY <1>7, <2>2 DEF WithResolution, Comment
  <2>4. /\ n.op \notin Drafts /\ n.actor = p.actor /\ n.copy = c
        /\ n.read = store[p.id] /\ n.read # None /\ Of(n) \in Ids /\ n.read = store[Of(n)]
    BY <1>6, <2>2, <2>3 DEF Drafts
  <2>. QED BY <2>2, <2>4 DEF Prompt
<1>11. CASE LoadReopen(r)
  <2> DEFINE c == WithResolution(store[p.id], None)
  <2>2. /\ p # None /\ p.step = "load" /\ p.op = "reopen" /\ store[p.id] # None
        /\ Resolvable(store[p.id], FALSE) /\ Prepare(r, p.id, c)
    BY <1>11 DEF LoadReopen, At
  <2>3. c \in Comment
    BY <1>7, <2>2 DEF WithResolution, Comment
  <2>4. /\ n.op \notin Drafts /\ n.actor = p.actor /\ n.copy = c
        /\ n.read = store[p.id] /\ n.read # None /\ Of(n) \in Ids /\ n.read = store[Of(n)]
    BY <1>6, <2>2, <2>3 DEF Drafts
  <2>. QED BY <2>2, <2>4 DEF Prompt
<1>12. ~Refuse(r)
  BY <1>0 DEF Refuse, End, Writing
<1>13. ASSUME NEW op, NEW u, NEW i, NEW b, NEW page, StartMutation(r, op, u, i, b, page)
       PROVE  FALSE
  BY <1>0, <1>13 DEF StartMutation, Call, Writing
<1>14. ASSUME NEW u, StartPurge(r, u)
       PROVE  FALSE
  BY <1>0, <1>14 DEF StartPurge, Call, Writing
<1>. QED BY <1>1, <1>5, <1>8, <1>9, <1>10, <1>11, <1>12, <1>13, <1>14 DEF Start, Load

\* A request that writes after a step wrote before it with the same copy, unless the step
\* is the one that began it.
LEMMA WritersStay ==
    ASSUME IInv, [Next]_vars, NEW r \in Requests, Writing(req'[r])
    PROVE  req'[r] = req[r] \/ Start(r) \/ Load(r)
<1>0. req \in [Requests -> Request \cup {None}]
  BY DEF IInv, TypeOK
<1>1. ~Put(r)
  <2>. SUFFICES ASSUME Put(r) PROVE FALSE
    OBVIOUS
  <2>1. req[r] \in Request /\ req[r] # None /\ (Tell(r) \/ End(r))
    BY <1>0 DEF Put
  <2>2. CASE Tell(r)
    <3>1. [req[r] EXCEPT !.step = "emit", !.read = None].step = "emit"
      BY <2>1 DEF Request
    <3>. QED BY <1>0, <2>2, <3>1 DEF Tell, Writing
  <2>. QED BY <1>0, <2>1, <2>2 DEF End, Writing
<1>2. ~PutFails(r) /\ ~Emit(r) /\ ~PurgeEnd(r)
  BY <1>0 DEF PutFails, Emit, PurgeEnd, End, Writing
<1>3. ~PurgeList(r)
  BY <1>0 DEF PurgeList, At, Request, Writing
<1>4. ~PurgeOne(r)
  <2>. SUFFICES ASSUME PurgeOne(r) PROVE FALSE
    OBVIOUS
  <2>1. PICK i \in req[r].queue : req' = [req EXCEPT ![r].queue = @ \ {i}]
    BY DEF PurgeOne
  <2>. QED BY <1>0, <2>1 DEF PurgeOne, At, Request, Writing
<1>5. ~Restart
  BY DEF Restart, Writing
<1>6. ASSUME NEW s \in Requests, s # r, Start(s) \/ Load(s) \/ Write(s) \/ Purge(s)
      PROVE  req'[r] = req[r]
  <2>1. CASE Start(s)
    <3>1. \E q : req' = [req EXCEPT ![s] = q]
      BY <2>1 DEF Start, StartCreate, StartMutation, StartPurge
    <3>. QED BY <1>0, <1>6, <3>1
  <2>2. CASE Load(s)
    BY <1>0, <1>6, <2>2 DEF Load, LoadReply, LoadEdit, LoadDelete, LoadResolve, LoadReopen,
       Refuse, Prepare, End
  <2>3. CASE Write(s)
    BY <1>0, <1>6, <2>3 DEF Write, Put, PutFails, Emit, Tell, End
  <2>4. CASE Purge(s)
    BY <1>0, <1>6, <2>4 DEF Purge, PurgeList, PurgeOne, PurgeEnd, End
  <2>. QED BY <1>6, <2>1, <2>2, <2>3, <2>4
<1>. QED BY <1>1, <1>2, <1>3, <1>4, <1>5, <1>6 DEF Next, Upload, vars, Write, Purge

\* Every request about to put keeps to one operation on what it has read.
LEMMA PromptStays == IInv /\ AllPrompt /\ [Next]_vars => AllPrompt'
BY WritersStay, LoadIsPrompt DEF AllPrompt

\* What is in sight after a step was in sight before it, or is stored.
LEMMA LooksAtStore ==
    ASSUME IInv, [Next]_vars
    PROVE  \A i \in Ids : Sights'[i] \subseteq Sights[i] \cup {store[i]}
<1>. SUFFICES ASSUME NEW i \in Ids, NEW c \in Sights'[i]
              PROVE  c \in Sights[i] \cup {store[i]}
  OBVIOUS
<1>1. PICK r \in Requests : /\ Writing(req'[r]) /\ req'[r].read # None
                            /\ i = Of(req'[r]) /\ c = req'[r].read
  BY DEF Sights, Writing, Of
<1>2. CASE req'[r] = req[r]
  BY <1>1, <1>2, SightsSeen
<1>3. CASE Start(r) \/ Load(r)
  BY <1>1, <1>3, LoadIsPrompt
<1>. QED BY <1>1, <1>2, <1>3, WritersStay

\* Every step of the store is then a promised operation, or none.
LEMMA StepIsPromised == IInv /\ AllPrompt /\ [Next]_vars => [Board!BoardNext]_<<store, Sights>>
<1>. SUFFICES ASSUME IInv, AllPrompt, [Next]_vars
              PROVE  Board!BoardNext
  OBVIOUS
<1>0. Board!Looking
  BY LooksAtStore DEF Board!Looking
<1>. SUFFICES ASSUME store' # store
              PROVE  \E i \in Ids : Board!Operation(i)
  BY <1>0 DEF Board!BoardNext
<1>1. PICK r \in Requests : Put(r) \/ PutFails(r) \/ PurgeOne(r)
  <2>1. PICK r \in Requests : Start(r) \/ Load(r) \/ Write(r) \/ Purge(r)
    BY DEF Next, Upload, Restart, vars
  <2>2. ~Start(r)
    BY DEF Start, StartCreate, StartMutation, StartPurge
  <2>3. ~Load(r)
    BY DEF Load, LoadReply, LoadEdit, LoadDelete, LoadResolve, LoadReopen, Refuse
  <2>4. ~Emit(r) /\ ~PurgeList(r) /\ ~PurgeEnd(r)
    BY DEF Emit, PurgeList, PurgeEnd
  <2>. QED BY <2>1, <2>2, <2>3, <2>4 DEF Write, Purge
<1>2. CASE Put(r) \/ PutFails(r)
  <2>1. req[r] # None /\ req[r].step = "write" /\ PutComment(req[r])
    BY <1>2 DEF Put, PutFails
  <2>2. SoundWrite(created, req[r]) /\ req[r].id \in Ids /\ Prompt(req[r])
    BY <2>1 DEF IInv, Sound, SoundWrite, AllPrompt, Writing
  <2>3. req[r].op \in Drafts => store[req[r].id] = None
    BY <2>2 DEF SoundWrite, IInv, Known
  <2>. QED BY <2>1, <2>2, <2>3, PutIsPromised DEF PutComment, IInv, Writing
<1>3. CASE PurgeOne(r)
  <2>1. PICK i \in req[r].queue : store' = [store EXCEPT ![i] = None]
    BY <1>3 DEF PurgeOne
  <2>2. i \in Ids
    BY <1>3, <2>1 DEF PurgeOne, At, IInv, TypeOK, Request
  <2>. QED BY <2>1, <2>2 DEF Board!Operation, Board!Remove, Board!Becomes
<1>. QED BY <1>1, <1>2, <1>3

\* However many requests overlap, the store implements the board its callers are promised:
\* every put is one whole operation on a comment its request has seen (Service, s3Store).
THEOREM StoreImplementsBoard == Spec => ImplementsBoard
<1>1. Init => Board!BoardInit
  BY DEF Init, Board!BoardInit, Sights
<1>2. Init => AllPrompt
  BY DEF Init, AllPrompt, Writing
<1>. QED BY <1>1, <1>2, PromptStays, InitIInv, NextIInv, StepIsPromised, PTL
     DEF Spec, ImplementsBoard, Board!BoardSpec

=============================================================================
