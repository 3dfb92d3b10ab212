------------------------------- MODULE Unfurl -------------------------------
(***************************************************************************)
(* Link previews in one Slack conversation: the loop of slackapp.Serve and *)
(* what it calls, event by event and call by call, while people join the   *)
(* conversation or become guests, the artifact is replaced and flagged,    *)
(* the sharer clicks, Slack delivers an event again, and the server        *)
(* restarts.  A message has one link.                                      *)
(***************************************************************************)
EXTENDS Slack, Sequences

CONSTANTS
    Messages,    \* with a link to the artifact, all by the same sharer
    Users,       \* of the workspace
    Sharer,
    Images,      \* preview cards, by their hash
    GuestTTL,    \* guestListTTL
    ChannelTTL,  \* channelGuestTTL
    CardTTL,     \* cardFailureTTL
    MaxEvents,   \* bound: events at once
    MaxAgain,    \* bound: events delivered again
    MaxVersion   \* bound: versions of the artifact

ASSUME UnfurlAssumption ==
    /\ Sharer \in Users /\ MaxVersion \in Nat \ {0} /\ MaxAgain \in Nat
    /\ GuestTTL \in Nat \ {0} /\ ChannelTTL \in Nat \ {0} /\ CardTTL \in Nat \ {0}

Versions == 1..MaxVersion
Times    == 0..MaxTime
Choices  == {"full", "title", "none"}

Event ==
    [type: {"link"}, msg: Messages]
      \cup [type: {"click"}, msg: Messages, user: Users, choice: Choices]

\* answers: whether a click began it, whose prompt is removed at the end.  shows: the
\* version a preview takes content from, or None.
Work ==
    [step: {"info", "check", "list", "members", "ask",
            "meta", "head", "card", "file", "unfurl", "respond"},
     msg: Messages, choice: Choices, answers: BOOLEAN, at: Times,
     hidden: BOOLEAN, shows: Versions \cup {None}, card: Images \cup {None},
     file: BOOLEAN, try: 1..3,
     bad: SUBSET Versions]   \* history: the version flagged when Preview began

GuestList == [ids: SUBSET Users, at: Times]
Channel   == [has: BOOLEAN, at: Times]

ASSUME UnfurlNoneAssumption ==
    None \notin Images \cup Work \cup GuestList \cup Channel \cup {"hidden", "content"}

VARIABLES
    members,   \* of the conversation
    guests,    \* the guest accounts of the workspace
    artifact,  \* the version stored and whether it is flagged
    events,    \* Socket Mode's, not handled yet
    again,     \* how many were delivered again
    prompts,   \* messages whose sharer sees a prompt
    posted,    \* the preview each message shows, or None
    work,      \* what Serve is at, or None
    guestList, \* guestDirectory.guests and guestsAt, or None
    channel,   \* guestDirectory.channels, or None
    files,     \* cardUploader.files
    failures,  \* cardUploader.failures
    since,     \* history: since when each is a guest here, or None
    chosen,    \* history: messages whose sharer answered "Show preview"
    auto,      \* history: messages of a conversation taken for members only
    failed     \* history: when an image was last refused, or None

world == <<now, members, guests, artifact, since>>
slack == <<events, again, prompts, posted, chosen>>
cache == <<guestList, channel, files, failures>>
unfurlVars  == <<world, slack, work, cache, auto, failed>>

UnfurlTypeOK ==
    /\ now \in Times
    /\ members \in SUBSET Users /\ guests \in SUBSET Users
    /\ artifact \in [version: Versions, flagged: BOOLEAN]
    /\ events \in Seq(Event) /\ again \in 0..MaxAgain
    /\ prompts \in SUBSET Messages
    /\ posted \in [Messages -> {"hidden", "content", None}]
    /\ work \in Work \cup {None}
    /\ guestList \in GuestList \cup {None}
    /\ channel \in Channel \cup {None}
    /\ files \in SUBSET Images
    /\ failures \in [Images -> Times \cup {None}]
    /\ since \in [Users -> Times \cup {None}]
    /\ chosen \in SUBSET Messages
    /\ auto \in SUBSET Messages
    /\ failed \in [Images -> Times \cup {None}]

UnfurlInit ==
    /\ now = 0 /\ members = {Sharer} /\ guests = {}
    /\ artifact = [version |-> 1, flagged |-> FALSE]
    /\ events = <<>> /\ again = 0 /\ prompts = {}
    /\ posted = [m \in Messages |-> None]
    /\ work = None
    /\ guestList = None /\ channel = None
    /\ files = {} /\ failures = [x \in Images |-> None]
    /\ since = [u \in Users |-> None]
    /\ chosen = {} /\ auto = {}
    /\ failed = [x \in Images |-> None]

-----------------------------------------------------------------------------
(* Serve takes the next event.                                             *)

ServeAt(step) == work # None /\ work.step = step

ServeTo(step) == work' = [work EXCEPT !.step = step]

\* An answered prompt is removed when its previews are sent, or could not be.
ServeEnds == work' = IF work.answers THEN [work EXCEPT !.step = "respond"] ELSE None

Begin(m, step, choice, answers) ==
    [step |-> step, msg |-> m, choice |-> choice, answers |-> answers, at |-> now,
     hidden |-> FALSE, shows |-> None, card |-> None, file |-> FALSE, try |-> 1,
     bad |-> IF artifact.flagged THEN {artifact.version} ELSE {}]

\* The event is acknowledged first; if that fails, Slack delivers it again.
Takes ==
    \/ events' = Tail(events) /\ UNCHANGED again
    \/ /\ again < MaxAgain
       /\ events' = Append(Tail(events), Head(events))
       /\ again' = again + 1

HandleLinkShared ==
    /\ work = None /\ events # <<>> /\ Head(events).type = "link"
    /\ Takes
    /\ work' = Begin(Head(events).msg, "info", "full", FALSE)
    /\ UNCHANGED <<world, prompts, posted, chosen, cache, auto, failed>>

\* Mutants, here and below: the definition that follows, with a plausible bug.
HeededAnyones(e) == TRUE

\* "only the sharer's answer counts"
Heeded(e) == e.user = Sharer

\* The conversation is not looked at again.
HandleConsent ==
    LET e == Head(events)
    IN  /\ work = None /\ events # <<>> /\ e.type = "click"
        /\ Takes
        /\ work' = IF ~Heeded(e) THEN None
                   ELSE Begin(e.msg, IF e.choice = "none" THEN "respond" ELSE "meta",
                              e.choice, TRUE)
        /\ UNCHANGED <<world, prompts, posted, chosen, cache, auto, failed>>

\* delete_original, which may fail; the prompt can be clicked again then.
Respond ==
    /\ ServeAt("respond")
    /\ work' = None
    /\ prompts' = prompts \ {work.msg} \/ UNCHANGED prompts
    /\ UNCHANGED <<world, events, again, posted, chosen, cache, auto, failed>>

-----------------------------------------------------------------------------
(* audience and hasGuests; a failed check asks the sharer.                 *)

Info ==
    /\ ServeAt("info")
    /\ \/ ServeTo("check")
       \/ ServeTo("ask")   \* the lookup fails
       \/ ServeEnds          \* shared with another organization
    /\ UNCHANGED <<world, slack, cache, auto, failed>>

\* Only members can read the conversation, as far as the cache and the calls tell.
Classify(has) ==
    IF has
      THEN ServeTo("ask") /\ UNCHANGED auto
      ELSE /\ work' = [Begin(work.msg, "meta", "full", FALSE) EXCEPT !.at = work.at]
           /\ auto' = auto \cup {work.msg}

CheckedOnce == channel # None

Checked == channel # None /\ now - channel.at < ChannelTTL

Check ==
    /\ ServeAt("check")
    /\ IF Checked
         THEN /\ Classify(channel.has)
         ELSE /\ work' = [work EXCEPT !.at = now,
                            !.step = IF guestList # None /\ now - guestList.at < GuestTTL
                                     THEN "members" ELSE "list"]
              /\ UNCHANGED auto
    /\ UNCHANGED <<world, slack, cache, failed>>

ListGuests ==
    /\ ServeAt("list")
    /\ \/ /\ guestList' = [ids |-> guests, at |-> work.at]
          /\ channel' = None
          /\ ServeTo("members")
       \/ /\ ServeTo("ask")
          /\ UNCHANGED <<guestList, channel>>
    /\ UNCHANGED <<world, slack, files, failures, auto, failed>>

\* At most maxMemberPages pages; more count as an error.
ListMembers ==
    LET has == members \cap guestList.ids # {}
    IN  /\ ServeAt("members")
        /\ \/ /\ channel' = [has |-> has, at |-> work.at]
              /\ Classify(has)
           \/ /\ ServeTo("ask")
              /\ UNCHANGED <<channel, auto>>
        /\ UNCHANGED <<world, slack, guestList, files, failures, failed>>

\* askSharer: a prompt only the sharer sees.
Ask ==
    /\ ServeAt("ask")
    /\ \/ prompts' = prompts \cup {work.msg}
       \/ UNCHANGED prompts
    /\ ServeEnds
    /\ UNCHANGED <<world, events, again, posted, chosen, cache, auto, failed>>

-----------------------------------------------------------------------------
(* sendPreviews: artifactInfo.Preview, the card's file, the unfurl.        *)

ReadMetadataOnly ==
    /\ ServeAt("meta")
    /\ \/ ServeTo("head")
       \/ ServeEnds
    /\ UNCHANGED <<world, slack, cache, auto, failed>>

\* describe: is it flagged?  Any failed lookup ends without a preview.
ReadMetadata ==
    /\ ServeAt("meta")
    /\ \/ work' = [work EXCEPT !.hidden = artifact.flagged,
                              !.step = IF artifact.flagged THEN "card" ELSE "head"]
       \/ ServeEnds
    /\ UNCHANGED <<world, slack, cache, auto, failed>>

\* A failed read leaves a preview of the metadata.
ReadHead ==
    /\ ServeAt("head")
    /\ \/ work' = [work EXCEPT !.shows = artifact.version, !.step = "card"]
       \/ ServeTo("card")
    /\ UNCHANGED <<world, slack, cache, auto, failed>>

\* The comments, which may fail, and then the card, if there is one; with "title only",
\* all content is withheld as for a flagged artifact.
ReadCard ==
    LET hidden == work.hidden \/ work.choice = "title"
        next(x) == [work EXCEPT !.hidden = hidden, !.card = x,
                                !.shows = IF hidden THEN None ELSE @,
                                !.step = IF x = None THEN "unfurl" ELSE "file"]
    IN  /\ ServeAt("card")
        /\ \/ ~hidden /\ \E x \in Images : work' = next(x)
           \/ work' = next(None)
           \/ ServeEnds
        /\ UNCHANGED <<world, slack, cache, auto, failed>>

Refuse(x) ==
    /\ failures' = [failures EXCEPT ![x] = now]
    /\ failed' = [failed EXCEPT ![x] = now]

FailedRecently(x) == failures[x] # None /\ now - failures[x] < CardTTL

\* fileID: an upload, unless there is one, or it failed a short while ago.
FileID ==
    LET x == work.card
    IN  /\ ServeAt("file")
        /\ \/ /\ x \in files
              /\ work' = [work EXCEPT !.file = TRUE, !.step = "unfurl"]
              /\ UNCHANGED <<files, failures, failed>>
           \/ /\ x \notin files
              /\ FailedRecently(x)
              /\ ServeTo("unfurl")
              /\ UNCHANGED <<files, failures, failed>>
        /\ UNCHANGED <<world, slack, guestList, channel, auto>>

Upload ==
    LET x == work.card
    IN  /\ ServeAt("file")
        /\ x \notin files
        /\ ~FailedRecently(x)
        /\ \/ /\ files' = files \cup {x}
              /\ failures' = [failures EXCEPT ![x] = None]
              /\ work' = [work EXCEPT !.file = TRUE, !.step = "unfurl"]
              /\ UNCHANGED failed
           \/ /\ Refuse(x)
              /\ ServeTo("unfurl")
              /\ UNCHANGED files
        /\ UNCHANGED <<world, slack, guestList, channel, auto>>

\* attachment: content is all that a reason for hiding withholds: description, numbers,
\* snippet, contents, card and the newest comment's words.
Shown == IF work.hidden THEN "hidden" ELSE "content"

\* The preview replaces the one the message has.
Unfurled ==
    /\ ServeAt("unfurl")
    /\ posted' = [posted EXCEPT ![work.msg] = Shown]
    /\ ServeEnds
    /\ UNCHANGED <<world, events, again, prompts, chosen, cache, auto, failed>>

RejectForgets(x) ==
    /\ files' = files \ {x}
    /\ failed' = [failed EXCEPT ![x] = now]
    /\ UNCHANGED failures

Reject(x) ==
    /\ files' = files \ {x}
    /\ Refuse(x)

\* With a card, once more after retryDelay, and then as text.
TriesAgain ==
    \/ /\ work.file /\ work.try = 1
       /\ work' = [work EXCEPT !.try = 2]
       /\ UNCHANGED <<files, failures, failed>>
    \/ /\ work.file /\ work.try = 2
       /\ work' = [work EXCEPT !.try = 3, !.file = FALSE]
       /\ Reject(work.card)
    \/ /\ ~work.file
       /\ ServeEnds
       /\ UNCHANGED <<files, failures, failed>>

\* Slack may have done what it reports to have failed.
UnfurlFails ==
    /\ ServeAt("unfurl")
    /\ \/ UNCHANGED posted
       \/ posted' = [posted EXCEPT ![work.msg] = Shown]
    /\ TriesAgain
    /\ UNCHANGED <<world, events, again, prompts, chosen, guestList, channel, auto>>

-----------------------------------------------------------------------------
(* Around it.                                                              *)

\* Serve looks at the next event when it is done with this one.
Arrives(e) ==
    /\ work = None
    /\ Len(events) < MaxEvents
    /\ events' = Append(events, e)
    /\ UNCHANGED <<world, again, prompts, posted, work, cache, auto, failed>>

Share(m) ==
    /\ Arrives([type |-> "link", msg |-> m])
    /\ UNCHANGED chosen

\* A click of anyone; only the sharer's is an answer.
Click(m, u, c) ==
    /\ m \in prompts
    /\ Arrives([type |-> "click", msg |-> m, user |-> u, choice |-> c])
    /\ chosen' = IF u = Sharer /\ c = "full" THEN chosen \cup {m} ELSE chosen

\* The membership of the conversation and of the workspace changes, where it is looked at
\* next: earlier, nothing would see it.  So do the artifact and the time.
Populate(ms, gs) ==
    /\ ServeAt("check") \/ ServeAt("list") \/ ServeAt("members")
    /\ members' = ms /\ guests' = gs
    /\ since' = [u \in Users |->
                   IF u \notin ms \cap gs THEN None
                   ELSE IF since[u] = None THEN now ELSE since[u]]
    /\ UNCHANGED <<now, artifact, slack, work, cache, auto, failed>>

Join(u)     == u \notin members /\ Populate(members \cup {u}, guests)
Leave(u)    == u \in members /\ Populate(members \ {u}, guests)
MakeGuest(u) == u \notin guests /\ Populate(members, guests \cup {u})

Artifact(a) ==
    /\ work = None \/ ServeAt("meta") \/ ServeAt("head")
    /\ artifact' = a
    /\ UNCHANGED <<now, members, guests, since, slack, work, cache, auto, failed>>

Flag    == ~artifact.flagged /\ Artifact([artifact EXCEPT !.flagged = TRUE])
Replace ==
    /\ artifact.version < MaxVersion
    /\ Artifact([version |-> artifact.version + 1, flagged |-> FALSE])

ClockTicks ==
    /\ \E step \in {"check", "list", "members", "file"} : ServeAt(step)
    /\ now < MaxTime
    /\ now' = now + 1
    /\ UNCHANGED <<members, guests, artifact, since, slack, work, cache, auto, failed>>

\* What was remembered and what was acknowledged are lost; prompts stay.
UnfurlRestart ==
    /\ work' = None
    /\ guestList' = None /\ channel' = None
    /\ files' = {} /\ failures' = [x \in Images |-> None]
    /\ failed' = [x \in Images |-> None]
    /\ UNCHANGED <<world, slack, auto>>

Serve ==
    \/ HandleLinkShared \/ HandleConsent \/ Respond
    \/ Info \/ Check \/ ListGuests \/ ListMembers \/ Ask
    \/ ReadMetadata \/ ReadHead \/ ReadCard \/ FileID \/ Upload
    \/ Unfurled \/ UnfurlFails

World ==
    \/ \E u \in Users \ {Sharer} : Join(u) \/ Leave(u) \/ MakeGuest(u)
    \/ Flag \/ Replace
    \/ \E m \in Messages : Share(m)
    \/ \E m \in Messages, u \in Users, c \in Choices : Click(m, u, c)
    \/ ClockTicks

UnfurlNext == Serve \/ World \/ UnfurlRestart

UnfurlSpec == UnfurlInit /\ [][UnfurlNext]_unfurlVars

-----------------------------------------------------------------------------
(* Properties.                                                             *)

\* A preview with content is in a conversation only where the sharer chose "Show preview"
\* for that very message, or the conversation was taken for members only
\* (HandleLinkShared, HandleConsent: "only the sharer's answer counts").
ContentByRight ==
    \A m \in Messages :
        posted[m] = "content" => m \in auto \/ m \in chosen

\* A version that was flagged when its preview was begun is never quoted, though it is
\* replaced between the look at its flag and the reading of its content (Preview).
FlaggedNotQuoted ==
    ServeAt("unfurl") /\ work.shows # None => work.shows \notin work.bad

\* What a preview in the making holds: it is well-formed, and quotes no such version.
QuotesSound == UnfurlTypeOK /\ FlaggedNotQuoted

\* Nobody is taken for a member who, when hasGuests reads the clock, has been a guest in
\* the conversation for the two lifetimes together: guests are at most guestListTTL old
\* when channelGuestTTL begins.  What the calls to Slack take comes on top.
GuestsAsked ==
    [][(ServeAt("check") \/ ServeAt("members")) /\ work' # None /\ work'.step = "meta" =>
         LET clock == IF ServeAt("check") THEN now ELSE work.at
         IN  \A u \in Users :
                 since[u] # None => clock - since[u] < GuestTTL + ChannelTTL]_unfurlVars

\* An image Slack refused, at its upload or in a preview, is not uploaded again before
\* cardFailureTTL has passed (fileID, reject).
RefusedBacksOff ==
    [][ServeAt("file") /\ files' # files =>
         \A x \in files' \ files :
             failed[x] # None => now - failed[x] >= CardTTL]_unfurlVars

=============================================================================
