-------------------------------- MODULE Cards --------------------------------
(***************************************************************************)
(* Preview cards: the handlers of cards_handler.go over the s3Store, for   *)
(* one slug (no operation touches two).  A card is a metadata object, and  *)
(* an image stored under its own hash.  Each S3 call is a step that may    *)
(* fail, and the server may restart between any two.  Deleting the         *)
(* artifact takes its card with it.                                        *)
(***************************************************************************)
EXTENDS Naturals

CONSTANTS
    Requests,   \* slots for requests in flight
    Images,     \* re-encoded images, told apart by their hashes
    Versions,   \* of the artifact
    None

ASSUME CardsAssumption == None \notin Images \cup Versions

Card == [image: Images, version: Versions]

Request ==
    [op:    {"put", "get", "delete", "remove"},
     step:  {"check", "previous", "image", "meta", "drop",
             "read", "fetch", "found", "missing",
             "find", "erase", "head", "object"},
     image: Images \cup {None},   \* put: the image sent
     card:  Card \cup {None},     \* put: the card to store; the others: the one read
     old:   Images \cup {None},   \* the image to delete at the end
     met:   BOOLEAN]              \* history: a writer was at work; get: or no card

ASSUME CardRequestAssumption == None \notin Card /\ None \notin Request

VARIABLES
    artifact,   \* the version stored at the slug, or None
    meta,       \* _previews/<slug>.json
    images,     \* _previews/<slug>/<sha256>.<ext>
    req,        \* the requests in flight
    crossed,    \* history: writers overlapped, and no lone put has ended since
    leaked,     \* history: an image was left behind by a failure
    stray       \* history: the card was stored, or left, without its artifact

history == <<crossed, leaked, stray>>
vars    == <<artifact, meta, images, req, history>>

TypeOK ==
    /\ artifact \in Versions \cup {None}
    /\ meta \in Card \cup {None}
    /\ images \in SUBSET Images
    /\ req \in [Requests -> Request \cup {None}]
    /\ crossed \in BOOLEAN
    /\ leaked \in BOOLEAN
    /\ stray \in BOOLEAN

Init ==
    /\ artifact = None
    /\ meta = None
    /\ images = {}
    /\ req = [r \in Requests |-> None]
    /\ crossed = FALSE
    /\ leaked = FALSE
    /\ stray = FALSE

-----------------------------------------------------------------------------

At(r, step) == req[r] # None /\ req[r].step = step

Writes(q) == q # None /\ q.op # "get"

Goto(r, step) == req' = [req EXCEPT ![r].step = step]

End(r) == req' = [req EXCEPT ![r] = None]

Call(op, step, x) ==
    [op |-> op, step |-> step, image |-> x, card |-> None, old |-> None, met |-> FALSE]

Writing == \E x \in Requests : Writes(req[x])

\* Whatever is under way meets the writer that starts.
StartWriter(r, q) ==
    /\ req[r] = None
    /\ req' = [x \in Requests |->
                 IF x = r THEN [q EXCEPT !.met = Writing]
                 ELSE IF req[x] # None THEN [req[x] EXCEPT !.met = TRUE]
                 ELSE None]
    /\ crossed' = (crossed \/ Writing)
    /\ UNCHANGED <<artifact, meta, images, leaked, stray>>

\* The image a request has replaced or orphaned, if there is one, is deleted last.
ThenDrop(r, old) ==
    IF old = None THEN End(r)
    ELSE req' = [req EXCEPT ![r] = [@ EXCEPT !.step = "drop", !.old = old]]

-----------------------------------------------------------------------------
(* PUT: is there an artifact?  Then s3Store.PutCard.                       *)

StartPut(r, x) == StartWriter(r, Call("put", "check", x))

\* commentArtifactContext: 404 without an artifact; its version goes into the card.
Check(r) ==
    LET q == req[r]
    IN  /\ At(r, "check")
        /\ IF artifact = None
             THEN End(r)
             ELSE req' = [req EXCEPT ![r] =
                            [q EXCEPT !.step = "previous",
                                      !.card = [image |-> q.image, version |-> artifact]]]
        /\ UNCHANGED <<artifact, meta, images, history>>

\* Mutants, here and below: the definition that follows, with a plausible bug.
AnyPrevious(card) == IF meta = None THEN None ELSE meta.image

\* The image to delete afterwards: another one than the new card's.
Previous(card) ==
    IF meta = None \/ meta.image = card.image THEN None ELSE meta.image

\* When reading the previous metadata fails, its image is left behind.
ReadPrevious(r) ==
    LET q       == req[r]
        next(o) == [q EXCEPT !.step = "image", !.old = o]
    IN  /\ At(r, "previous")
        /\ \/ /\ req' = [req EXCEPT ![r] = next(Previous(q.card))]
              /\ UNCHANGED leaked
           \/ /\ req' = [req EXCEPT ![r] = next(None)]
              /\ leaked' = TRUE
        /\ UNCHANGED <<artifact, meta, images, crossed, stray>>

PutImage(r) ==
    /\ At(r, "image")
    /\ images' = images \cup {req[r].card.image}
    /\ Goto(r, "meta")
    /\ UNCHANGED <<artifact, meta, history>>

\* The put is applied, and an error returned: nothing more is done.
PutImageFails(r) ==
    /\ At(r, "image")
    /\ images' = images \cup {req[r].card.image}
    /\ leaked' = TRUE
    /\ End(r)
    /\ UNCHANGED <<artifact, meta, crossed, stray>>

StoreMeta(q) ==
    /\ meta' = q.card
    /\ stray' = (artifact = None)

\* A put that met no other writer leaves a sound card.
PutMeta(r) ==
    LET q == req[r]
    IN  /\ At(r, "meta")
        /\ StoreMeta(q)
        /\ crossed' = (crossed /\ q.met)
        /\ leaked' = (leaked \/ crossed)
        /\ ThenDrop(r, q.old)
        /\ UNCHANGED <<artifact, images>>

PutMetaFails(r) ==
    /\ At(r, "meta")
    /\ StoreMeta(req[r])
    /\ leaked' = TRUE
    /\ End(r)
    /\ UNCHANGED <<artifact, images, crossed>>

\* deleteCardImage, whose failure is only logged.
DropImage(r) ==
    /\ At(r, "drop")
    /\ \/ images' = images \ {req[r].old} /\ UNCHANGED leaked
       \/ leaked' = TRUE /\ UNCHANGED images
    /\ End(r)
    /\ UNCHANGED <<artifact, meta, crossed, stray>>

-----------------------------------------------------------------------------
(* GET: s3Store.GetCard.                                                   *)

StartGet(r) ==
    /\ req[r] = None
    /\ req' = [req EXCEPT ![r] =
                 [Call("get", "read", None) EXCEPT
                    !.met = crossed \/ meta = None \/ Writing]]
    /\ UNCHANGED <<artifact, meta, images, history>>

ReadMeta(r) ==
    LET q == req[r]
    IN  /\ At(r, "read")
        /\ req' = [req EXCEPT ![r] =
                     IF meta = None THEN [q EXCEPT !.step = "missing"]
                                    ELSE [q EXCEPT !.step = "fetch", !.card = meta]]
        /\ UNCHANGED <<artifact, meta, images, history>>

\* An image that is gone is answered as if there were no card.
FetchImage(r) ==
    /\ At(r, "fetch")
    /\ Goto(r, IF req[r].card.image \in images THEN "found" ELSE "missing")
    /\ UNCHANGED <<artifact, meta, images, history>>

AnswerGet(r) ==
    /\ At(r, "found") \/ At(r, "missing")
    /\ End(r)
    /\ UNCHANGED <<artifact, meta, images, history>>

-----------------------------------------------------------------------------
(* DELETE of the card: s3Store.DeleteCard; and of the artifact, which ends *)
(* with it (the purge of the comments between them is another module's).   *)

StartDelete(r) == StartWriter(r, Call("delete", "find", None))

StartRemove(r) == StartWriter(r, Call("remove", "head", None))

HeadObject(r) ==
    /\ At(r, "head")
    /\ IF artifact = None THEN End(r) ELSE Goto(r, "object")
    /\ UNCHANGED <<artifact, meta, images, history>>

RemoveObjectOnly(r) ==
    /\ At(r, "object")
    /\ artifact' = None
    /\ End(r)
    /\ UNCHANGED <<meta, images, history>>

RemoveObject(r) ==
    /\ At(r, "object")
    /\ artifact' = None
    /\ Goto(r, "find")
    /\ UNCHANGED <<meta, images, history>>

\* The artifact is gone, and an error returned: the card stays.
RemoveObjectFails(r) ==
    /\ At(r, "object")
    /\ artifact' = None
    /\ stray' = (meta # None)
    /\ End(r)
    /\ UNCHANGED <<meta, images, crossed, leaked>>

FindMeta(r) ==
    LET q == req[r]
    IN  /\ At(r, "find")
        /\ IF meta = None
             THEN End(r)
             ELSE req' = [req EXCEPT ![r] = [q EXCEPT !.step = "erase", !.card = meta]]
        /\ UNCHANGED <<artifact, meta, images, history>>

EraseMeta(r) ==
    LET q == req[r]
    IN  /\ At(r, "erase")
        /\ meta' = None
        /\ stray' = FALSE
        /\ req' = [req EXCEPT ![r] = [q EXCEPT !.step = "drop", !.old = q.card.image]]
        /\ UNCHANGED <<artifact, images, crossed, leaked>>

EraseMetaFails(r) ==
    /\ At(r, "erase")
    /\ meta' = None
    /\ stray' = FALSE
    /\ leaked' = TRUE
    /\ End(r)
    /\ UNCHANGED <<artifact, images, crossed>>

-----------------------------------------------------------------------------

\* An upload stores the artifact, or a new version of it; the card stays.
PutArtifact(v) ==
    /\ artifact' = v
    /\ UNCHANGED <<meta, images, req, history>>

\* What is undone when r stops where it is.
Abandons(r) ==
    /\ leaked' = (leaked \/ req[r].step \in {"meta", "drop"})
    /\ stray' = (stray \/ (req[r].op = "remove" /\ req[r].step \in {"find", "erase"}
                           /\ artifact = None /\ meta # None))

\* An S3 call fails without effect, or the body is refused: the request ends there.
Fails(r) ==
    /\ req[r] # None
    /\ req[r].step \in {"check", "image", "meta", "read", "fetch",
                        "head", "object", "find", "erase"}
    /\ Abandons(r)
    /\ End(r)
    /\ UNCHANGED <<artifact, meta, images, crossed>>

\* The replica that serves r stops; the objects stay.
Stops(r) ==
    /\ req[r] # None
    /\ Abandons(r)
    /\ End(r)
    /\ UNCHANGED <<artifact, meta, images, crossed>>

PutCard(r) ==
    \/ \E x \in Images : StartPut(r, x)
    \/ Check(r)
    \/ ReadPrevious(r)
    \/ PutImage(r)
    \/ PutImageFails(r)
    \/ PutMeta(r)
    \/ PutMetaFails(r)

GetCard(r) ==
    \/ StartGet(r)
    \/ ReadMeta(r)
    \/ FetchImage(r)
    \/ AnswerGet(r)

DeleteCard(r) ==
    \/ StartDelete(r)
    \/ FindMeta(r)
    \/ EraseMeta(r)
    \/ EraseMetaFails(r)

RemoveArtifact(r) ==
    \/ StartRemove(r)
    \/ HeadObject(r)
    \/ RemoveObject(r)
    \/ RemoveObjectFails(r)

Next ==
    \/ \E r \in Requests :
          PutCard(r) \/ GetCard(r) \/ DeleteCard(r) \/ RemoveArtifact(r)
          \/ DropImage(r) \/ Fails(r) \/ Stops(r)
    \/ \E v \in Versions : PutArtifact(v)

Spec == Init /\ [][Next]_vars

-----------------------------------------------------------------------------
(* Properties.                                                             *)

\* The image the metadata names is stored, whatever put, deletion or replica stopped
\* halfway, unless two writers overlapped (PutCard stores the image first and deletes
\* the previous one last).
CardHasImage == meta # None /\ ~crossed => meta.image \in images

\* Without failures and overlapping writers, no image outlives its card, the same image
\* sent twice included ("removes a superseded image", deleteCardImage).
NoImageLeft ==
    ~crossed /\ ~leaked /\ ~Writing =>
        \A x \in images : meta # None /\ meta.image = x

\* "Preview card not found" is true: there was no card at some instant of the request, or
\* a writer was at work (GetCard reads the metadata, then the image it names).
MissingIsTrue == \A r \in Requests : At(r, "missing") => req[r].met

\* A deleted artifact's card goes with it, so that the next artifact at the slug starts
\* without one, unless its deletion stopped halfway or a card was stored after the
\* artifact was gone (handleDelete, handlePutCard's check before the store).
CardGoesWithArtifact ==
    artifact = None /\ ~stray /\ ~Writing => meta = None

\* Nothing outlives what it belongs to: no image its card, no card its artifact.
NothingLeft == TypeOK /\ NoImageLeft /\ CardGoesWithArtifact

=============================================================================
