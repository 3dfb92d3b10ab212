# Trove: models and proofs

Trove is a file-sharing service: one Go process (replicated behind a load
balancer) in front of an S3 bucket. People and agents upload files or ZIP sites
under a slug, view and download them, comment on them, share them in Slack, and
use personal access tokens for scripts. There is no database and no lock service:
*every* piece of shared state is an S3 object, and every handler is a short
sequence of S3 calls that other handlers, on this or another replica, may
interleave with. What is in memory (the guidance cache, the notification queue, the
Slack caches) is lost at a restart. That is where the hard behaviour is, and it is
what these modules model: one TLA+ action per S3, Slack or model call, requests
interleaved between calls, calls failing with or without effect, and a restart at
any point.

Files: `X.tla` is a component, `MCX.tla` gives TLC its symmetry and small sets,
`MCX_run.cfg` is one run, `XProofs.tla` holds the theorems TLAPS checks. `Auth` holds the
constants that `Tokens` and `Identity` share and `Slack` the clock of `Notify` and `Unfurl`;
the theorems about each pair are in `AuthProofs` and `SlackProofs`, so the names of a pair do not
overlap (`TokensInit`, `IdentityInit`, ...).
`PROJECT.json` maps each definition to the lines of code it stands for and lists
runs, mutants, hazards, findings and theorems.

    tlc -workers 2 -config MCComments_race.cfg MCComments     # one run
    tlapm CommentsProofs.tla                                  # one module's proofs

## 1. Inventory

For each component: the state it keeps, its operations, whom it meets, what is
hard about it, and what makes it correct.

**Comment service and store** (`comments/comments.go`, `cmd/server/comments_handler.go`,
`storage/s3.go`). State: one JSON object per comment under `_comments/<slug>/`.
Operations: create, reply, edit, delete (a tombstone), resolve, reopen, list; all
comments go when the artifact is deleted. Meets: the artifact (a comment is
anchored at a version of a file or page), the notifier (told after each write).
Hard: every mutation is GetObject, check, unconditional PutObject of the whole
record. Correct when: a record keeps its identity and its author's words, threads
stay flat, lists lose no live comment, the observer hears only of what was stored.
**Modelled** (`Comments`, `CommentBoard`).

**File uploads and conditional updates** (`handleUpload`, `handleDelete`,
`artifacts_handler.go`, `s3Store.Put/Get/Metadata/Delete`). State: one object per slug;
its version is its ETag. Operations: create at a chosen or generated slug,
overwrite, conditional update (`if_match`), read version, read content, delete.
Hard: check-then-act between HeadObject and PutObject; the version in a reply is
read by another call; 412 and lost answers. Correct when: only an overwrite
replaces a file, a conditional update never destroys what its sender has not
seen, and every request is answered. **Modelled** (`Uploads`).

**Site uploads** (`handleSiteUploadFromZip`, `PutSiteFile`, `PutSiteManifest`,
`HeadSite`, `handleSiteAsset`, `handleView`, `lookupArtifact`). State: the pages under
`_sites/<slug>/` and a manifest beside them, next to the file that may be stored at
the same slug. Hard: every page is put by itself, uploads overlap, pages stay from
earlier versions, and file and site are looked up by separate calls. Correct when:
what a manifest promises can be served, a rejected archive leaves nothing, and "not
found" is true. **Modelled** (`Sites`, `SitePaths`).

**Preview cards** (`storage/s3_cards.go`, `cards_handler.go`). State: metadata naming an
image by its hash, and the image. Operations: put, get, delete, and the deletion with
the artifact. Hard: image and metadata are two objects, replaced and deleted
concurrently. Correct when: the image that metadata names is there, and nothing
outlives what it belongs to. **Modelled** (`Cards`).

**Personal access tokens** (`auth/tokens.go`, `storage/s3_tokens.go`,
`tokens_handler.go`). State: a record per token and a marker in its owner's index.
Operations: create, verify (with an occasional touch of last-used), list, revoke.
Hard: two objects written one after the other; a touch in flight while the record
is deleted; expiry. Correct when: revocation is final and prompt, a usable token
can be found by its owner, recorded uses are true. **Modelled** (`Tokens`).

**Identity resolution** (`auth/auth.go`, `auth/cloudflare.go`, `identity.go`,
`Auth.validate`). State: the configuration, and the tokens that requests mint and
revoke. Operations: resolve a request in mode off, shadow or enforce from a bearer
token, a proxy assertion, a header and a cookie; answer 400, 401 or 503; rewrite the
header. Hard: several credentials on one request, an outage of the token store or of the
proxy's key set, keys that rotate, and tokens that are the product of earlier requests. Correct when: in enforce a write acts
only as a proven person, a failed credential is never made up for by another, shadow
changes nothing for those who assert an address. **Modelled** (`Identity`).

**User activity manifest** (`storage/activity.go`, `storage/s3_activity.go`). State: one
object per browser with its uploads and views. Operations: RecordUpload, RecordView,
GetManifest. Hard: every request rewrites the whole object; conditional-put loop,
delayed writers, lost answers. Correct when: it behaves as an atomic log whose
instants only move forwards. **Modelled** (`Activity`, `ActivityLog`).

**Intake inspection** (`intake/*`, `storage/s3_intake.go`, `gateUpload`, `inspectUpload`).
State: the cached guidance with its expiry, and allowed verdicts in S3 keyed by a
fingerprint. Hard: the fingerprint is read apart from the guidance the inspection uses,
refreshes overlap, every call may fail. Correct when: nothing is stored that no
published guidance allowed, and no guidance is used long after its time. **Modelled**
(`Intake`, `Moderation`).

**Bucket scanner** (`cmd/scan`). Inspects what is stored and flags an object by copying
it over itself with other metadata. Hard: the object may be replaced meanwhile.
**Partly modelled** (`Moderation`): one object at a time; the listing, the worker pool
and the report are left out.

**Notifications** (`notify/notify.go`, `slackapp/notifier.go`). State: a bounded queue,
the activity being delivered, a cache of Slack users. Hard: drops, retries whose first
attempt was posted, accounts that come and go, recipients worked out at delivery,
restarts. Correct when: those concerned are told, once each, nobody is forgotten, and
the dispatcher always gets back to its queue. **Modelled** (`Notify`).

**Slack unfurls and consent** (`slackapp/*`, `cmd/server/slack.go`). State: caches of
guests, of the conversation and of refused cards; prompts and previews in Slack. Hard:
stale caches, failed look-ups, redelivered events, clicks of others and answers to other
messages, artifacts replaced or flagged between calls. Correct when: content is shown only to a conversation of
members or at its sharer's word. **Partly modelled** (`Unfurl`): one conversation and
one link per message.

**Configuration** (`internal/config`). `Auth.validate` is modelled as the set of
configurations `Identity` starts from. **Partly modelled.**

**Not modelled**: preview extraction from HTML, Markdown and data files (pure parsing);
the pages and styles of the user interface, the MCP and documentation endpoints and
favicons (routing and rendering without state of their own); the pass-through MCP
client and the documentation generator; the in-memory fakes (test doubles of the S3
store); the remaining sections of the configuration (parsing and range checks, no
behaviour over time).

How they interact: an upload passes the *intake* gate, stores an *artifact*, is
recorded in the *activity manifest*; *comments* and *cards* look the artifact up, and go
with it when it is deleted; a comment's write emits an activity to *notifications*,
which read artifact and comments again at delivery; an *unfurl* reads metadata, flag,
content, comments and card in separate calls; every request passes *identity*, whose
credentials *tokens* keep.

## 2. The modules

A module's requests are records in slots (`req`, `up`, `rd`, `work`) with the step they
are at and what they have read so far; an action is a call and what the code does with
its answer up to the next call. History variables (marked so where they are declared)
record what properties need and no action's guard reads.

### Comments, CommentBoard

One artifact slug. `artifact[x]` is the version stored at each resource (the file,
or a page of a site), `store[i]` the object of comment `i` or `None`, `req[r]` the
request in slot `r` with its step and the record it holds. A mutation is `Start…`
(the handler reads the artifact's context), `Load…` (GetObject and the service's
checks, together because the check reads only what was just returned), `Put` or
`PutFails` (PutObject, applied or not when it fails), `Emit` (the observer).
`StartPurge`, `PurgeList`, `PurgeOne`, `PurgeEnd` are `handleDelete` with
`DeleteComments`, one object at a time; a failure leaves the rest. `Upload` is a new
version of the file or of a page. `Threads` is `Service.List` under its filters.
`created` is a history variable: each comment as first stored.

`CommentBoard` is what the service promises its callers: each write is one whole operation,
`Post`, `Reply`, `Amend`, `Withdraw`, `Settle`, `Reopen` or `Remove`, with that operation's
checks, on a comment as it is or as somebody still at work saw it. Its `sights` are what
those at work have seen of each comment, and a comment is only ever seen as it is. `Comments`
implements it with any number of requests (`Board == INSTANCE CommentBoard WITH board <-
store, sights <- Sights`, where `Sights` is what the requests about to put have read). What
the board does not promise is that the comment still is as it was seen; section 5 says what
concurrent callers lose by that.

Abstracted: timestamps (nobody decides on one), texts (those that pass `validateBody`),
anchors (only their resource), e-mail case. `commentArtifactContext` is one read of the
version (the code asks for the metadata or for the site and its page; that the site exists is
taken for part of it), and `Threads` is a function of one state of the store (the code
reads the listed comments one by one, and fails when one has gone meanwhile).
### Uploads

`object[s]` is the content at a slug, which is also its version, as an ETag is.
`Start…` is the handler up to the first store call, then `HeadFree`, `HeadTaken`
(409, or another draw of a generated slug up to `MaxRetries`), `HeadFault` (an error
`s3Store.Put` does not recognise), `Put`, `PutRefused` (412/409), `PutFails`, `Reply`
(the separate Metadata call) and `Conflict` (`versionConflict`), the last two with or without
a version, as their look-up may fail. `PutResent` is a put that took effect and that the S3
client sends again because its answer was lost: the second one may then be refused. A
deletion is `Find` and `Remove`, each with its error.

`held`, `basis` and `seen` are the client's side: the version it would send, how it came by
it (asked for; asked for and the content then read; given in the reply to its own upload), and
every content it has sent or read. A client sends a version with `if_match` in the last two
cases, as `docs/llms.txt` tells it to. Any content may be sent again; `stored` and `again` record
which have been stored, and which more than once. Contents are numbers, sent for the first
time in their order, which leaves out only renamings.

### Sites, SitePaths

`page[s][p]` is the ZIP a stored page came from, `manifest[s]` the version and file
count that `PutSiteManifest` writes last, `file[s]` whether a single file is at the slug
too. An upload looks up the site or compares the manifest (`Match`, `HeadSite`), has every
page inspected (`Inspect`), then puts pages in the archive's order and the manifest
(`PutSiteFile`, `PutSiteManifest`); a failed put leaves what was put before it. A reader
asks for file and site one after the other, in the order its handler uses (`StartView`
the site first, `StartLookup` the file first). `SitePaths` is the path arithmetic that
decides what a page is called: the common directory (the empty one when all names begin with a
slash), `__MACOSX`, cleaning, and which names are refused; a name is its sequence of parts, and
cleaning goes through it part by part (`CleanUpTo`, a recursive function). `AsksFor` is the other
side, what `handleSiteAsset` looks for when asked for a path; a request for the page 'raw' never
gets there, since the router has `/:slug/raw` for single files.

Abstracted: the characters of a name, the bytes of a page. An entry or archive over a limit in
bytes, and one that cannot be opened or read, is an upload that ends before it has put
anything (`Fails`). The pages are inspected in any order, as the code inspects up to `concurrency` at a time.

### Cards

One slug. `meta` is the metadata object (its image and the artifact's version), `images`
the image objects. A put is `Check` (the artifact), `ReadPrevious`, `PutImage`, `PutMeta`,
`DropImage`; a get `ReadMeta`, `FetchImage`; a deletion `FindMeta`, `EraseMeta`,
`DropImage`, preceded by `HeadObject`, `RemoveObject` when the artifact goes. Each may fail
before or after it takes effect. Abstracted: the image's decoding and re-encoding, which
either gives a hash or refuses the request.

### Tokens

`record[t]` is `_tokens/<id>.json`, `index[u]` the set of markers of an owner, `clock`
the time. Create: `StartCreate`, `PutRecord`, `PutMarker` (the plaintext is handed out
only after both). Verify: `Get`, `Check` (expiry; the clock is read after the record),
`Reread`, `Touch` (If-Match on the ETag that was reread, result ignored), `Accept`. Revoke:
`Find`, `Erase`, `Unindex`. List: `Markers`, `ReadRecord` one by one, `Listed`. `Fails`
ends a request at any call, except that a failed touch is only unrecorded; an applied
call whose answer is lost is a disjunct of the call. `drawn`, `handed` and `revoked` are
history.

Abstracted: secrets and their hash (a token id is drawn once; presenting a token is
naming its id), names, the order of the list.

### Identity

`config` is a configuration and `runs` whether a server with it starts (`Accepts` is
`Auth.validate`, `Builds` is `newIdentityResolver`). `Arrive` brings a request with any
combination of header, cookie, bearer token and proxy assertion; `Middleware` decides on
it (`VerifyFirst`, `Resolve`, `Decide`) with the token store up or down; `Handle` is the
handler's turn, where mint and revoke change `live`, which later requests draw their
bearers from. `keys` says whether the server has the key that the proxy signs with: its first
fetch may fail without keeping the server from starting, `KeysRotated` is the proxy's change of
key, `KeysFetched` a later fetch that succeeds. Without it every assertion is refused. `Deploy` is
another configuration over the same tokens. Cryptography is abstracted to whether a credential
verifies; who may list or revoke which token is `Tokens`.

### Activity, ActivityLog

`stored` is the manifest object of one browser: for each of `uploads` and `views` a set
of records. `StartRecord` stamps a record; `readManifest`, then `Put` under If-Match or
If-None-Match. `Put` may be answered, not answered, or answered with a conflict of its
own making when the S3 client repeated it. `Conflict` and `Retry` are the five attempts;
`Fails` any other error, the deadline or a client that goes away. `mergeActivity`,
`Attributed` and `Updated` are the merge. Initial states include a manifest written
before uploads carried their owner's address.

`ActivityLog` is the abstraction: per artifact the instant of the latest upload and
view, moved forwards by one atomic step at a time. `Activity` implements it through
`latest`, the instant of the artifact's one entry.

Abstracted: the position of entries in the lists (the dashboard sorts), file names and
types, several browsers (their objects are independent).

### Intake, Moderation

`Intake` is the inspector. `source` is the server's `CachedSource`; an inspection asks it
twice, for the fingerprint and for the model's request (`Ask`), and refreshes it without
its lock (`Fetch`, `StoreFetched`, `FetchFails`). `Lookup` and `Remember` are the verdict
cache, `AskModel` the model. `Publish` replaces the guidance in S3 at any time.
`Moderation` adds what becomes of the verdict: the upload gate (`Admit`, `Block`,
`UploadUninspected`) and the scanner's worker (`ScanHead`, `ScanGet`, `SetFlag`, a
CopyObject of whatever is there with the metadata read before; the name and type the scanner
inspects under are those of `ScanHead`, and `same` says whether it is one object throughout). `mixed`, `swapped`,
`late` and `same` are history.

Abstracted: the model's answer and the prompt's wording (a guidance blocks a fixed set of
files), the latency of one read (at most `Latency` ticks).

### Notify

Writes of comments (`Create`, `Reply`, `Resolve`, `Reopen`, `Delete`, atomic here: `Comments`
has their steps), `Emit` into the queue of `QueueSize`, and the dispatcher: `Dequeue`,
`LookUp` (the artifact and, for a reply, the thread, read at delivery), `NextRecipient`,
`UserID` (Slack's look-up behind the cache `users` with its two lifetimes), `Post` with a lost
answer as one outcome, `Wake`. `Flip` opens and closes accounts; `NotifyRestart` loses the queue
and the cache. `Kept` is the loop in which `Recipients` collects. `Listening` and the guards of `TimePasses` and `Flip` leave out interleavings
that no step could tell apart from earlier or later ones.

### Unfurl

One conversation. `events` are Socket Mode's, each possibly delivered again. Serving one is
`Info`, `Check`, `ListGuests`, `ListMembers` (`audience`, with `guestList` and `channel`
as `guestDirectory`'s caches), then `Ask` (a prompt to the sharer) or the preview:
`ReadMetadata` (the flag), `ReadHead` (the content), `ReadCard`, `FileID`/`Upload` (with
`failures` as the back-off of refused cards) and `Unfurled` or `UnfurlFails` with its two further
attempts. An answer to a prompt goes straight to the preview, for the message that was asked
about; `Respond` removes the prompt after that, or fails to. Meanwhile people join, leave and become guests (`Populate`), the artifact is replaced and
flagged, anybody clicks a prompt, and the server restarts. Time passes while the guests and
the members are asked for, after `hasGuests` has read the clock (`work.at`), and during uploads.

What a message shows is "content" unless what `attachment` withholds is withheld: description,
numbers, snippet, the artifact's contents, card and the newest comment's words, all under the
same flag. Abstracted: layout, several links in a message, several conversations (their caches
have separate entries; only the guest list is shared). Artifacts are files here: for a site
`describe` asks for manifest and entry page and reads no flag; the scanner sets none there.

## 3. Runs

Deadlock is checked except in the Comments, Activity and Notify runs, which really stop
when a bound is used up (the artifact deleted after its last upload; all calls made).
Symmetry is used on interchangeable sets where a run has no liveness property.

| run | instance | distinct states | shows |
|---|---|---|---|
| `comments_race` | 2 requests, 2 users, 3 ids, a file and a page, 2 uploads, 5 pieces of work | 2 183 287 | what stale write-backs, failed puts, restarts and the purge can never break, and that every write is one whole operation of the board |
| `uploads_protocol` | 2 clients, 1 slug, 2 contents, 3 uploads, 1 redraw, faults on, fairness | 487 188 | updates based on a version asked for and read replace nothing blindly, a create alone replaces nothing, all are answered |
| `uploads_reply` | 2 clients, 3 contents | (violation) | `NoBlindReplace` fails: a finding |
| `uploads_fault` | 1 client, failing look-ups | (violation) | `CreateNeverReplaces` fails: a finding |
| `sites_race` | 2 uploads of 3 archives, 1 reader, 1 slug | 1 369 301 | what overlapping and broken site uploads leave, what readers are told |
| `cards_race` | 3 requests, 2 images, 2 versions | 828 096 | card, image and artifact stay together |
| `tokens_race` | 2 requests, 2 users, 2 tokens, lives of 1 or 2 ticks, 1 tick | 1 210 509 | revocation, expiry, lists and the index |
| `identity_modes` | 2 users, every configuration and credential, store and keys within reach or not | 551 520 | who a request acts as, and who mints tokens |
| `activity_race` | 2 requests, 2 slugs, 2 users, 2 calls, 2 attempts | 147 740 | the manifest loses nothing and is an atomic log |
| `moderation_race` | 2 inspections, 2 guidances, 2 files, 4 ticks | 4 106 356 | what is stored was allowed; caches and flags |
| `notify_race` | 3 people, 2 activities, a queue of 1, 2 attempts, 2 ticks, fairness | 2 549 572 | who is told, and that the queue drains |
| `unfurl_race` | 2 messages, sharer and guest, 1 event and 1 redelivery, 2 versions, 2 ticks | 6 736 112 | content by right, caches within their lifetimes |

Each run is one to four minutes with two workers.

The properties, by run. Those that gather several facts about the same records name
them as conjuncts, each defined and commented by itself.

- `comments_race`: `RecordsTrue` (well-formed, `IdentityKept`, `AuthorsWords`,
  `ClearedIffDeleted`), `RepliesFlat`, `LiveCommentsListed`, `ActivityPersisted`,
  `ImplementsBoard`.
- `uploads_protocol`: `ReadUpdatesNotBlind`, `LoneCreateReplacesNothing`, `Answered` (liveness).
- `sites_race`: `PromisedPagesStored` (whatever a manifest names can be served),
  `UntornSiteWhole`, `PagesSound` (`RejectedLeavesNoTrace`, `StoredPageReachable`),
  `NotFoundIsTrue`, `LoneUploadReplacesAsAsked`.
- `cards_race`: `CardHasImage`, `NothingLeft` (`NoImageLeft`, `CardGoesWithArtifact`),
  `MissingIsTrue`.
- `tokens_race`: `RecordsTrue` (`RevokedStaysRevoked`, `UsedInLifetime`),
  `RevocationTakesEffect`, `UsableIndexed`, `ListExact`.
- `identity_modes`: `WritesProven`, `NeverDowngraded`, `ShadowBlocksNothing`, `Coherent`
  (`AcceptedStarts`, `DeniedForCause`, `OneIdentity`), `MintedBySession`.
- `activity_race`: `ManifestTrue` (`OnePerSlug`, `OwnersKnown`), `NothingLost`,
  `ImplementsLog`.
- `moderation_race`: `StoredWasAllowed`, `CacheSoundUnlessSwapped`, `GuidanceInTime`,
  `FlagsTrue` (`FlagDeserved`, `MetadataKept`).
- `notify_race`: `ToldRight` (`ToldOnce`, `OnlyThoseConcerned`), `NobodyForgotten`,
  `GivenUpWasGone`, `Drains` (liveness).
- `unfurl_race`: `ContentByRight`, `QuotesSound` (`FlaggedNotQuoted`), `GuestsAsked`,
  `RefusedBacksOff`.

Several properties hold only apart from a race that the code does not exclude: two
overlapping writers of a card, a guidance swapped within an inspection, an object replaced
under the scanner, a site upload that meets another. A history variable says exactly when that happened
(`crossed`, `swapped`, `mixed`, `alone`), and the property says that *nothing else* breaks it;
section 5 lists what those races do.

Why the bounds suffice. Every race in these components is between one request's read
and its write and another request's write in between, so two requests show each of
them; cards have three, because a reader can meet a replacement that meets another
writer. Three comment ids make a root, its reply and a reply that is asked for under that
reply; two users make an author and somebody else; two contents and three uploads let two
clients update, meet and store a content a second time, and the run of the finding has three.
`MaxWork` bounds the uploads, the comments ever stored and the requests in flight taken
together; five allow one upload, a root with its reply and two requests that meet on them,
or two uploads, two comments and one request. Two messages let a prompt, a click or a redelivered event belong to the
other one; the run follows both only at the first tick and without a refused card
(`CONSTRAINT Bounds` in `MCUnfurl`), as clocks and cards are shared by all messages anyway. A token's life of
one or two ticks against one tick of clock has a token expire and another be used, and
touched, again at a later instant; the theorems hold for any times. The site archives are one
with a common directory, `__MACOSX` and a page called 'raw', one whose names all begin with a slash,
with a page that needs cleaning and is blocked, and one with too many files. Two attempts reach "again" and "give up"; a queue of
one with two activities reaches "full". Lifetimes of one tick against two (four for the
guidance) reach every order of filling, use and expiry. The bounds are constants
(`MaxUploads`, `MaxWork`, `MaxRetries`, `MaxFiles`, `MaxTTL`, `MaxTime`, `MaxAttempts`, `MaxCalls`,
`Latency`, `QueueSize`, `Attempts`, `MaxComments`, `MaxActs`, `MaxFlips`, `MaxEvents`, `MaxAgain`,
`MaxVersion`); `MaxRetries`, `MaxFiles`, `MaxTTL`, `MaxAttempts`, `QueueSize` and `Attempts`
are also limits of the code.

Each property of a passing run has a mutant: the definition preceded by a variant with
a plausible bug (a dropped guard, a condition that always holds, a missing reset) under
which TLC finds the property violated. The variants are the operators from the
comment "Mutants" on in each module, each before its definition; nothing uses them.

Fairness. `Answered` needs `FairSpec` of `Uploads`: a handler that can take its next step
does (weak fairness of `Serve`). `Drains` needs the same of the dispatcher's `Run`. Go schedules a
runnable goroutine, and every call returns, with an error at the latest when its
connection or context times out (`attemptTimeout` in the dispatcher). Clients, Slack and
the clock are under no obligation.

## 4. Findings

`uploads_fault`: a HeadObject error without an API error code is taken for "free"
(`s3.go:93`) and an existing file is replaced, with nobody else involved, although
`docs/llms.txt:22` keeps that for `overwrite`.

`uploads_reply`: the version in an upload's reply is read by a call of its own after the put
(`handlers.go:450`) and may be another writer's. `docs/llms.txt:40` says to send it as `if_match`
on the next update, and that update then replaces the other writer's content unseen. The passing
run says what holds all the same: a version that was asked for, and whose content was read after
that, never leads to this (`ReadUpdatesNotBlind`).

## 5. What the code does not promise, or promises and does not do

These were met while modelling; they are excluded from the properties as said above, or
which hold through them.

- Comments. With two requests in flight, Resolve and Edit write back the whole record they
  read: a Delete in between (`comments.go:332` against `:285`) is undone, the body included, and
  an edit in between is lost. A reply is stored in a thread resolved or deleted after its
  check (`:258`), and comments may be stored for an
  artifact whose purge has listed them already (`UpdateComment`, `s3.go:359`, even stores a purged
  one anew). `ImplementsBoard` allows all of this, as operations on what their request has seen.
- Uploads. Two creates may both find a slug free, and the later one replaces the earlier
  (`s3.go:86`; no If-None-Match is sent). Versions are content
  hashes: a content stored a second time makes an older version current again, and an update based
  on that one passes and replaces what its sender may never have known to be stored again
  (`again` sets these contents aside). A conditional put that took effect, lost its answer
  and was sent again by the S3 client is refused, so that a 412 may come after a change,
  although `docs/llms.txt:25` says that it "changes nothing".
- Sites. Overlapping uploads mix their pages. A generated slug that is taken is drawn
  again once and not looked up again; `HeadSite` looks for a site, not for a file, so
  the two can share a slug. Pages of an earlier version that the new one lacks stay
  stored and reachable (`handlers.go:832`). A page named 'raw' is stored and cannot be asked for,
  because `main.go:140` routes `/:slug/raw` to single files. Failed purges of comments and cards are only logged
  (`handlers.go:970`).
- Cards. Two overlapping puts, or a put and a deletion, can leave metadata without its
  image (`s3_cards.go:65`). A card can be stored after its artifact was deleted
  (`cards_handler.go:45`).
- Identity. An assertion that the server cannot check because it could not fetch the proxy's keys
  is refused with 401 (`cloudflare.go:69-81`), although `docs/authentication.md:130` says 503 for
  a credential "that can't be checked because a dependency failed". The outage is in the model, and
  `DeniedForCause` names it among the causes of a refusal.
- Intake. A guidance published between the fingerprint and the inspection is remembered
  under the old one's fingerprint (`cache.go:48-66`); the README's "Changing the model or guidance
  re-inspects everything" (`README.md:169`) then misses that file. `source.go:26` says concurrent
  refreshes share one fetch; each does its own, and the slower answer is cached.
- Scanner. A file replaced between HeadObject and CopyObject gets the old one's metadata and
  flag (`cmd/scan/main.go:375`). Pages of sites are never scanned, as `listKeys` skips the keys
  they are under (`:172` says "site assets are scanned via their slug").
- Notifications. Whoever joins a thread before a reply is delivered hears of that reply;
  an attempt that was posted and timed out is posted again (`docs/slack.md:57` says one
  message per activity); a resolution and a reopening that overlap may be told in either order;
  what is queued at a restart is lost, as `docs/slack.md:71` says.
- Unfurls. An answer to a prompt is not checked against a conversation that has become
  shared with another organization since (`consent.go:135`), where `docs/slack.md:100` says
  never. A version flagged after its
  flag was read is still quoted once. An event whose acknowledgement failed is handled twice
  (`socket.go:42`). One refused card costs all links of the message theirs.

## 6. Proofs

All theorems hold for any sets and any values of the constants, under the assumptions
that the modules name: `CommentsAssumption`, `TokensAssumption`, `ActivityAssumption`,
`UploadsAssumption`, `SitesAssumption`, `IdentityAssumption`, `CardsAssumption`,
`IntakeAssumption`, `ModerationAssumption`, `SlackAssumption`, `NotifyAssumption`,
`UnfurlAssumption` (what the constants are: sets, numbers, and `None` outside them) and one
more per module that `None` is no record of it (`RequestAssumption`, `TokenAssumption`,
`SiteRequestAssumption`, ...). TLC evaluates them on every run. The theorems about a
component follow from one inductive invariant (`IInv`, or `TokensInv`, `NotifyInv`, ... where a
module has two), in `Uploads` from two; below is what it adds to the properties and why.

Every safety property that a passing run checks is a theorem.

What recursive functions compute (`CleanUpTo`, `KeptUpTo`) is proved by induction in the form
that needs no operator as a parameter: the numbers for which a fact holds are a set, and a set of
numbers that has 0 and with each number the next has them all (`Induction`, which follows
from the well-foundedness of the numbers by `WFMin`). First comes the lemma that the function
exists, so that it satisfies its own equation (`CleanUpToFact`, `KeptUpToFact`).

**CommentsProofs**: `TypeCorrect`, `IdentitySafe`, `WordsSafe`, `TombstonesEmpty`,
`ThreadsFlat`, `ActivityTrue`, `RecordsSafe`. What the runs check of `store` is not
inductive, because the next put may store any record that a request has held for
arbitrarily long. `IInv` therefore says of every *held* record what it says of stored
ones, relative to the history `created`: it has the identity of the comment's first
version (`Known`), or it is a draft under an id nobody has used, whose root is a
created root (`Rooted`). `created` only grows, so what is known of a held record never
becomes false; that is the whole reason stale write-backs are harmless to these
properties. Two drafts in flight never share an id. `LiveListed` (every live comment whose
root is stored is in exactly one thread of its page's list) follows: the root of a reply is
the root it was created under and on the same page, so one set of replies has it and no other.

`StoreImplementsBoard`: `Comments` implements `CommentBoard` with any number of requests. The
step from `Load` to `Put` is where an operation and its checks could come apart, since the
store may be another one by then, so the invariant speaks of the record in hand: `Prompt`
says that it is what the request's operation makes of the comment it has *read*. It holds when the
record is made, because the check reads the store of that instant, and it mentions only the
request itself, so nobody else's step can break it (`PromptStays`). What is read then is in
`Sights` until the put (`SightsSeen`), which therefore is `Post`, `Reply`, `Amend`, `Withdraw`,
`Settle` or `Reopen` on a comment in sight (`PutIsPromised`); a deletion of the purge is
`Remove`, and everything else leaves the board as it is and looks at comments only as they
are stored (`LooksAtStore`).

**UploadsProofs**: `TypeCorrect`, `LoneCreatesSafe`, `GuideSafe`. `LoneInv`: a request
that has met no other is the only one there is, so a slug HeadObject found free is still
free at its PutObject, or holds its own content if it has already put it. `SeenInv`: every
version that is stored, held or asked to be replaced is of a content that has been stored
(`VersionsStored`), so that when one becomes current a second time it is in `again`. Hence
whenever the stored content is that of a version the client has read after asking for it,
it is one the client has seen or one stored more than once (`HeldSeen`), and so for the
version an update sends as `if_match` (`MatchSeen`). `GuideSafe` follows, since S3 compares that
version when it puts.

**SitesProofs**: `TypeCorrect`, `PromisesKept`, `SitesWhole`, `RejectedSafe`,
`StoredReachable`, `PagesSafe`, `NotFoundSafe`, `LoneUploadsAsAsked`. `Sound` says of each upload in flight what its checks
have found and which pages it has put; those stay stored because a page is only ever
replaced by a page, and stay *its own* while it has met nobody, because two uploads at
one slug have met (`Apart`). `Reading` says of each reader what must still be there for
its remaining questions, or that the slug has been empty during the request.

The paths of pages: cleaning gives a path in which no part is empty or "." and ".." stands
only before all others (`Tidy`, by induction over the parts of a name); one that does not begin
with ".." has it nowhere (`TidyAskable`, by its first ".."), and cleaning it again changes
nothing (`AskableClean`). The names of the archive are any sequences of parts: only that an
archive passed `safeSitePath` and that each page is put under a path of its own archive (`Checked`)
is used. `StoredReachable` then says that a request for the path of a stored page looks for that
page, unless it is called 'raw'.

**CardsProofs**: `ImageStored`, `LeavesNothing`, `MissingSafe`. A writer that has met no
other is the only one (`Alone`), so what it read is still so (`LoneWriter`); as long as no
two writers have crossed, none has met another (`Uncrossed`). `ImagesOwned` accounts for
every image: the card's, or one a request is about to name or to delete. `CardLeaves`:
whoever removed the artifact is still on its way to the card.

**AuthProofs, `Tokens`**: `TypeCorrect`, `RevocationFinal`, `RevocationEffective`,
`UsableFound`, `UseTrue`, `ListsExact`, `RecordsSafe`. `TokensInv` adds to the stored state what each
request has read (`Sound...`): a held record agrees with the stored one on owner and life
(`SameToken`), so a touch under If-Match changes only the instant; a verification past
`Get` holds a token that was not revoked when it began; a list has queued or found every
token due. `Alone`: while a token's record is being put, no other request but a lookup
names it.

**AuthProofs, `Identity`**: `WritesSafe`, `NoDowngrade`, `ShadowHarmless`, `AnswersCoherent`,
`MintsBySession`. `VerifyFact` is what checking the credentials can find, `OutcomeFact`
what each mode makes of it. A decision records the store
and the keys it was made with, so that what it says of a credential can be compared with what
was in reach (`AnswersCoherent`: a refusal has its cause in the credential, or for an assertion in
a key that could not be had). An answer stays true until its handler has run because
neither the configuration nor the request changes in between. Minting needs the history
of the handler's turn, so it is an action property.

**ActivityProofs**: `TypeCorrect`, `OneEntry`, `NoLostUpdate`, `OwnersTrue`,
`ManifestSafe`, and `Refinement`: the loop implements `ActivityLog`. `IInv` is the
invariants, that uploads in the manifest name known uploaders, and that records in flight
carry known owners. The key step (`PutStores`) is that an applied put updates the manifest
*as it is now*, since it is applied only over what was read; `MergeFact` says what merging
does to one list. Init maps to Init (`LogInit`) and every put to one step of the log or to
a stutter (`PutLogs`).

**ModerationProofs** (`Intake` and `Moderation`): `UncheckedKeptOut`, `CacheSafe`,
`GuidanceTimely`, `FlagsSafe`. `Sound` says of each inspection that it knows only published
guidances (`Asked`), that a guidance it has just read is no older than one read may be
(`InTime`, kept by the guard of `Tick`), that a verdict it carries was given by one of
them (`Deserved`), and that a scan nothing got between still has the object before it
(`Undisturbed`). `published` only grows, so none of this becomes false when the guidance
changes. `SourceSound` bounds the age of the cached guidance, whoever stored it last;
`VerdictsPass` says that whatever fingerprint a verdict stands under, some guidance gave
it: a swapped guidance therefore misfiles a verdict, but lets nothing through that none
allowed.

**SlackProofs, `Notify`**: `NotifyInvariance`, `PeopleAreToldRight`, `NobodyIsForgotten`,
`NobodyReachableIsGivenUp`. An activity is about comments that change while it waits, so
`Stored` says what it still knows of them: which were live when it was reported, and that
those deleted since cannot come back. `RecipientsFact` says whom the loop in `Recipients`
collects: each once (`Once`), nobody who may not hear of it (`MayHear`), and all who must
(`MustHear`). `Underway` is the loop invariant of `handle`: those still in `rest` are told no
more often than attempts lost their answer, and whoever must hear of the activity is still in
`rest` or has been told or given up; at the end `rest` is empty, hence `NobodyForgotten`.
`MissingSound` bounds how long a missing user is remembered by when the account was missing.

**SlackProofs, `Unfurl`**: `UnfurlInvariance`, `ContentOnlyByRight`, `QuotesAreSound`,
`LongGuestsAreAsked`, `RefusedImagesBackOff`. `InTheMaking` says of the preview being made
that it may show what it will show (`MayShow`: the conversation was taken for members only,
or its sharer chose so, which `ClicksHeard` says of the answers still under way), that what it
holds was read in order (`PutTogether`), and that no version flagged at its start is on its
way into it (`Unflagged`: a flagged version stays flagged until it is replaced, and is never
current again). `ListSound` and `ChannelSound` bound the age of a wrong answer of the two caches:
whoever is a guest unknown to the list became one after it was read, and a conversation is
taken for free of guests only until a list of its time would have expired; the sum of the two
lifetimes in `GuestsAsked` comes from there. The last two theorems are action properties.

Only model-checked: `Answered` and `Drains`, the liveness properties (liveness under fairness
is out of the prover's reach). No theorem has a
hypothesis beyond the named assumptions on the constants.

## 7. Plan

Done: every component that section 1 calls modelled or partly modelled, and the theorems of
all safety properties of the runs. Left, in order:

1. `Scan`: the listing in pages and the worker pool, with keys that come and go.
2. `Unfurl`: several links in a message, which share one card upload's failure.
3. `Comments`: the reads of a list one by one, with what is told when a comment goes in between.

## 8. Not modelled

- Preview extraction (`preview/` except the card's fields): pure functions from bytes to a
  title and a description, without state; their cases are the parser's, not
  interleavings.
- User interface, MCP and static content (`ui.go`, `mcp*.go`, templates, favicons):
  rendering and routing over the components above; no state of their own.
- Client and build tools (`cmd/mcp-client`, the documentation generator and its generated
  `docs.go`): a pass-through of requests, and generated text.
- In-memory fakes: test doubles of the S3 store.
- Configuration apart from `Auth.validate`: parsing, defaults and range checks of
  single fields at start-up.
- Within modelled components: what section 2 lists under "Abstracted".
