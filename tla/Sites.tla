-------------------------------- MODULE Sites --------------------------------
(***************************************************************************)
(* Multi-page sites: handleSiteUploadFromZip over the s3Store, next to the *)
(* single file that may be stored at the same slug, and the requests that  *)
(* ask what a slug is.  A site is one object per page and a manifest; each *)
(* S3 call is a step that may fail, and the server may restart between any *)
(* two.  The content of a page is told by the ZIP it came from.            *)
(***************************************************************************)
EXTENDS SitePaths, FiniteSets

CONSTANTS
    Uploads,     \* slots for site uploads in flight
    Readers,     \* slots for requests that ask what a slug is
    Slugs,
    Zips,        \* the ZIPs that are sent, which their versions tell apart
    None,
    Names(_),    \* the names of a ZIP's entries, each at least one part
    Banned,      \* the <<zip, path>> whose content the inspector blocks
    MaxFiles     \* maxSiteFiles

ASSUME SitesAssumption ==
    /\ None \notin Zips
    /\ \A z \in Zips : IsFiniteSet(Names(z)) /\ Names(z) \subseteq Seq(STRING) \ {<<>>}
    /\ MaxFiles \in Nat

Pages(z) == PathsOf(Names(z))
Paths    == UNION {Pages(z) : z \in Zips}

Upload ==
    [step:      {"match", "head", "inspect", "pages", "manifest"},
     slug:      Slugs,
     zip:       Zips,
     ifMatch:   Zips \cup {None},
     overwrite: BOOLEAN,
     generated: BOOLEAN,          \* generateSlug chose the slug
     left:      SUBSET Paths,     \* pages still to be inspected, or stored
     alone:     BOOLEAN]          \* history: no other upload to its slug met it

Manifest == [version: Zips, fileCount: 0..MaxFiles]

Asks == {<<>>, <<"file">>, <<"site">>, <<"file", "site">>, <<"site", "file">>}

Reader ==
    [slug: Slugs,
     view:  BOOLEAN,              \* handleView; the others answer for the API
     asks:  Asks,                 \* what is still to be asked for, in this order
     found: {"", "file", "site"},
     gone:  BOOLEAN]              \* history: may truly answer that nothing is there

ASSUME SiteRequestAssumption == None \notin Upload /\ None \notin Manifest /\ None \notin Reader

VARIABLES
    failOpen,   \* intakeFail is FailOpen
    page,       \* <slug>/<path>: the ZIP the page came from, or None
    manifest,   \* _sites/<slug>.json, or None
    file,       \* is there a single file at <slug>?
    up,         \* the site uploads in flight
    rd,         \* the readers in flight
    torn        \* history: pages were put that no lone upload has completed

vars == <<failOpen, page, manifest, file, up, rd, torn>>

TypeOK ==
    /\ failOpen \in BOOLEAN
    /\ page \in [Slugs -> [Paths -> Zips \cup {None}]]
    /\ manifest \in [Slugs -> Manifest \cup {None}]
    /\ file \in [Slugs -> BOOLEAN]
    /\ up \in [Uploads -> Upload \cup {None}]
    /\ rd \in [Readers -> Reader \cup {None}]
    /\ torn \in [Slugs -> BOOLEAN]

Init ==
    /\ failOpen \in BOOLEAN
    /\ page = [s \in Slugs |-> [p \in Paths |-> None]]
    /\ manifest = [s \in Slugs |-> None]
    /\ file = [s \in Slugs |-> FALSE]
    /\ up = [r \in Uploads |-> None]
    /\ rd = [d \in Readers |-> None]
    /\ torn = [s \in Slugs |-> FALSE]

-----------------------------------------------------------------------------

At(r, step) == up[r] # None /\ up[r].step = step

End(r) == up' = [up EXCEPT ![r] = None]

AtSlug(r, s) == up[r] # None /\ up[r].slug = s

\* None also without a manifest, which no if_match names.
VersionAt(s) == IF manifest[s] = None THEN None ELSE manifest[s].version

\* r goes on as q; it and every other upload to q's slug have now met.
Meets(r, q) ==
    LET others == {x \in Uploads \ {r} : AtSlug(x, q.slug)}
    IN  up' = [x \in Uploads |->
                 IF x = r THEN [q EXCEPT !.alone = @ /\ others = {}]
                 ELSE IF x \in others THEN [up[x] EXCEPT !.alone = FALSE]
                 ELSE up[x]]

\* The slug loses its file: readers under way may miss it, the viewer even if a site
\* was put there since it asked.
Lost(s) ==
    LET missing(q) == q.slug = s /\ (q.view \/ manifest[s] = None)
    IN  rd' = [d \in Readers |->
                 IF rd[d] # None /\ missing(rd[d]) THEN [rd[d] EXCEPT !.gone = TRUE]
                 ELSE rd[d]]

Request(step, s, z, v, overwrite, generated) ==
    [step |-> step, slug |-> s, zip |-> z, ifMatch |-> v, overwrite |-> overwrite,
     generated |-> generated, left |-> {}, alone |-> TRUE]

Admitted(z) ==
    /\ AllSafe(Names(z))
    /\ Cardinality(Files(Names(z))) <= MaxFiles

Inspecting(q) == [q EXCEPT !.step = "inspect", !.left = Pages(q.zip)]

\* Every entry is read, and checked, before the first is inspected.
Proceeds(r, q) == IF Admitted(q.zip) THEN Meets(r, Inspecting(q)) ELSE End(r)

-----------------------------------------------------------------------------
(* The upload.  A ZIP without index.html goes no further.                  *)

StartCreate(r, s, z, generated) ==
    /\ up[r] = None
    /\ HasIndex(Names(z))
    /\ Meets(r, Request("head", s, z, None, FALSE, generated))
    /\ UNCHANGED <<failOpen, page, manifest, file, rd, torn>>

\* Whether generateSlug chose the slug makes no difference then.
StartOverwrite(r, s, z) ==
    /\ up[r] = None
    /\ HasIndex(Names(z))
    /\ Admitted(z)
    /\ Meets(r, Inspecting(Request("head", s, z, None, TRUE, FALSE)))
    /\ UNCHANGED <<failOpen, page, manifest, file, rd, torn>>

StartMatch(r, s, z, v) ==
    /\ up[r] = None
    /\ HasIndex(Names(z))
    /\ Meets(r, Request("match", s, z, v, TRUE, FALSE))
    /\ UNCHANGED <<failOpen, page, manifest, file, rd, torn>>

\* if_match is compared with the manifest before anything is written.
Match(r) ==
    /\ At(r, "match")
    /\ IF VersionAt(up[r].slug) = up[r].ifMatch THEN Proceeds(r, up[r]) ELSE End(r)
    /\ UNCHANGED <<failOpen, page, manifest, file, rd, torn>>

HeadIgnored(r) ==
    /\ At(r, "head")
    /\ Proceeds(r, up[r])
    /\ UNCHANGED <<failOpen, page, manifest, file, rd, torn>>

\* Taken by a site: 409 for a slug the client chose; a generated one is drawn again,
\* once, and not looked up again.
HeadSite(r) ==
    LET q == up[r]
    IN  /\ At(r, "head")
        /\ \/ /\ manifest[q.slug] = None
              /\ Proceeds(r, q)
           \/ /\ manifest[q.slug] # None /\ ~q.generated
              /\ End(r)
           \/ /\ manifest[q.slug] # None /\ q.generated
              /\ \E s \in Slugs : Proceeds(r, [q EXCEPT !.slug = s])
        /\ UNCHANGED <<failOpen, page, manifest, file, rd, torn>>

\* Mutants, here and below: the definition that follows, with a plausible bug.
PassedFirst(r, p) ==
    LET q == up[r]
    IN  up' = [up EXCEPT ![r] = [q EXCEPT !.step = "pages", !.left = Pages(q.zip)]]

\* Page p has passed; the store is touched when every page has.
Passed(r, p) ==
    LET q    == up[r]
        left == q.left \ {p}
    IN  up' = [up EXCEPT ![r] =
                 IF left = {} THEN [q EXCEPT !.step = "pages", !.left = Pages(q.zip)]
                              ELSE [q EXCEPT !.left = left]]

Inspect(r, p) ==
    /\ At(r, "inspect")
    /\ p \in up[r].left
    /\ IF <<up[r].zip, p>> \in Banned THEN End(r) ELSE Passed(r, p)
    /\ UNCHANGED <<failOpen, page, manifest, file, rd, torn>>

\* The inspector fails: 503, unless uploads are to pass then.
InspectFails(r, p) ==
    /\ At(r, "inspect")
    /\ p \in up[r].left
    /\ IF failOpen THEN Passed(r, p) ELSE End(r)
    /\ UNCHANGED <<failOpen, page, manifest, file, rd, torn>>

Stored(r, p) ==
    /\ page' = [page EXCEPT ![up[r].slug][p] = up[r].zip]
    /\ torn' = [torn EXCEPT ![up[r].slug] = TRUE]

\* The pages of a ZIP, in its order, each an unconditional put.
PutSiteFile(r, p) ==
    LET q == up[r]
    IN  /\ At(r, "pages")
        /\ p \in q.left
        /\ Stored(r, p)
        /\ up' = [up EXCEPT ![r] =
                    [q EXCEPT !.left = @ \ {p},
                              !.step = IF q.left = {p} THEN "manifest" ELSE "pages"]]
        /\ UNCHANGED <<failOpen, manifest, file, rd>>

\* 500, with the pages before it in place, and perhaps this one too.
PutSiteFileFails(r, p) ==
    /\ At(r, "pages")
    /\ p \in up[r].left
    /\ Stored(r, p) \/ UNCHANGED <<page, torn>>
    /\ End(r)
    /\ UNCHANGED <<failOpen, manifest, file, rd>>

ManifestOf(z) == [version |-> z, fileCount |-> Cardinality(Files(Names(z)))]

PutManifestEarly(r) ==
    LET q == up[r]
    IN  /\ up[r] # None
        /\ q.step \in {"pages", "manifest"}
        /\ manifest' = [manifest EXCEPT ![q.slug] = ManifestOf(q.zip)]
        /\ torn' = [torn EXCEPT ![q.slug] = @ /\ ~q.alone]
        /\ End(r)
        /\ UNCHANGED <<failOpen, page, file, rd>>

\* The manifest last, unconditionally; the reply may still be lost.
PutSiteManifest(r) ==
    LET q == up[r]
    IN  /\ At(r, "manifest")
        /\ manifest' = [manifest EXCEPT ![q.slug] = ManifestOf(q.zip)]
        /\ torn' = [torn EXCEPT ![q.slug] = @ /\ ~q.alone]
        /\ End(r)
        /\ UNCHANGED <<failOpen, page, file, rd>>

\* An S3 call fails without effect, or an entry is too large or cannot be read.
Fails(r) ==
    /\ up[r] # None
    /\ up[r].step \in {"match", "head", "manifest"}
    /\ End(r)
    /\ UNCHANGED <<failOpen, page, manifest, file, rd, torn>>

-----------------------------------------------------------------------------
(* The file at the slug, put and deleted by requests Uploads details.  A    *)
(* file's upload does not look for a site, nor the deletion: sites stay.   *)

PutFile(s) ==
    /\ ~file[s]
    /\ file' = [file EXCEPT ![s] = TRUE]
    /\ UNCHANGED <<failOpen, page, manifest, up, rd, torn>>

DeleteFile(s) ==
    /\ file[s]
    /\ file' = [file EXCEPT ![s] = FALSE]
    /\ Lost(s)
    /\ UNCHANGED <<failOpen, page, manifest, up, torn>>

-----------------------------------------------------------------------------
(* Requests that find out what a slug holds.                               *)

StartReader(d, s, view, asks) ==
    /\ rd[d] = None
    /\ rd' = [rd EXCEPT ![d] =
                [slug |-> s, view |-> view, asks |-> asks, found |-> "",
                 gone |-> ~file[s] /\ manifest[s] = None]]
    /\ UNCHANGED <<failOpen, page, manifest, file, up, torn>>

\* handleView shows a site before a file.
StartView(d, s) == StartReader(d, s, TRUE, <<"site", "file">>)

\* lookupArtifact and commentArtifactContext take a file before a site.
StartLookupSiteFirst(d, s) == StartReader(d, s, FALSE, <<"site", "file">>)

StartLookup(d, s) == StartReader(d, s, FALSE, <<"file", "site">>)

Holds(s, kind) == IF kind = "file" THEN file[s] ELSE manifest[s] # None

\* One call: GetSiteManifest or HeadSite, or Metadata.
AskStore(d) ==
    LET q    == rd[d]
        kind == Head(q.asks)
    IN  /\ q # None
        /\ q.asks # <<>>
        /\ rd' = [rd EXCEPT ![d] =
                    IF Holds(q.slug, kind)
                      THEN [q EXCEPT !.asks = <<>>, !.found = kind]
                      ELSE [q EXCEPT !.asks = Tail(@)]]
        /\ UNCHANGED <<failOpen, page, manifest, file, up, torn>>

Answer(d) ==
    /\ rd[d] # None
    /\ rd[d].asks = <<>>
    /\ rd' = [rd EXCEPT ![d] = None]
    /\ UNCHANGED <<failOpen, page, manifest, file, up, torn>>

\* The server stops and starts again; the objects stay.
Restart ==
    /\ \E r \in Uploads : up[r] # None
    /\ up' = [r \in Uploads |-> None]
    /\ rd' = [d \in Readers |-> None]
    /\ UNCHANGED <<failOpen, page, manifest, file, torn>>

-----------------------------------------------------------------------------

Start(r) ==
    \E s \in Slugs, z \in Zips :
        \/ \E generated \in BOOLEAN : StartCreate(r, s, z, generated)
        \/ StartOverwrite(r, s, z)
        \/ \E v \in Zips : StartMatch(r, s, z, v)

Serve(r) ==
    \/ Match(r)
    \/ HeadSite(r)
    \/ \E p \in Paths : Inspect(r, p) \/ InspectFails(r, p)
    \/ \E p \in Paths : PutSiteFile(r, p) \/ PutSiteFileFails(r, p)
    \/ PutSiteManifest(r)
    \/ Fails(r)

Tell(d) ==
    \/ \E s \in Slugs : StartView(d, s) \/ StartLookup(d, s)
    \/ AskStore(d)
    \/ Answer(d)

Next ==
    \/ \E r \in Uploads : Start(r) \/ Serve(r)
    \/ \E d \in Readers : Tell(d)
    \/ \E s \in Slugs : PutFile(s) \/ DeleteFile(s)
    \/ Restart

Spec == Init /\ [][Next]_vars

-----------------------------------------------------------------------------
(* Properties.                                                             *)

\* Whatever a site's manifest promises can be served: every page of the ZIP it names is
\* stored, from this or another upload, though the manifest is written apart from the
\* pages and uploads fail, overlap and stop anywhere (PutSiteManifest comes last).
PromisedPagesStored ==
    \A s \in Slugs : manifest[s] # None =>
        \A p \in Pages(VersionAt(s)) : page[s][p] # None

\* A site that no upload has touched since a lone one completed shows exactly that
\* upload: its pages are all of the version the manifest reports.
UntornSiteWhole ==
    \A s \in Slugs : manifest[s] # None /\ ~torn[s] =>
        \A p \in Pages(VersionAt(s)) : page[s][p] = VersionAt(s)

\* "If any file is rejected, we leave the store untouched": nothing of a ZIP with a
\* blocked page or too many files is ever stored, though its files are inspected one by
\* one (handleSiteUploadFromZip).
RejectedLeavesNoTrace ==
    \A s \in Slugs, p \in Paths :
        LET z == page[s][p]
        IN  z # None =>
              /\ failOpen \/ \A x \in Pages(z) : <<z, x>> \notin Banned
              /\ Cardinality(Files(Names(z))) <= MaxFiles

\* Except for a page called 'raw', which the route of single files hides, every stored
\* page is what a request for its path looks for: safeSitePath, which gave the page its
\* path when the archive was unpacked, accepts that path and leaves it as it is.
StoredPageReachable ==
    \A s \in Slugs, p \in Paths : page[s][p] # None =>
        p = RawPage \/ AsksFor(p, p)

\* What is stored under a site's slug, whatever upload it is from: pages of archives that
\* passed as a whole, at paths that can be asked for, 'raw' excepted.
PagesSound == TypeOK /\ RejectedLeavesNoTrace /\ StoredPageReachable

\* "Artifact not found" is true: the slug was empty at some instant of the request,
\* although file and site are asked for one after the other (lookupArtifact,
\* commentArtifactContext); the viewer, which asks for the site first, may also answer
\* so when the file was deleted meanwhile.
NotFoundIsTrue ==
    \A d \in Readers : rd[d] # None /\ rd[d].asks = <<>> /\ rd[d].found = "" =>
        rd[d].gone

\* An upload that met no other at its slug replaces no site it did not ask to replace:
\* with a slug the client chose and neither overwrite nor if_match, none; with if_match,
\* only the version it names ("slug already taken", versionConflict).
LoneUploadReplacesAsAsked ==
    [][\A r \in Uploads :
          LET q == up[r]
          IN  At(r, "manifest") /\ q.alone /\ manifest' # manifest =>
                /\ q.ifMatch # None => VersionAt(q.slug) = q.ifMatch
                /\ ~q.overwrite /\ ~q.generated => manifest[q.slug] = None]_vars

=============================================================================
