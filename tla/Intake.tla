------------------------------- MODULE Intake -------------------------------
(***************************************************************************)
(* The intake inspector: AnthropicInspector behind the verdict cache, with *)
(* its guidance read through a CachedSource.  The server runs it for every *)
(* upload, and the scanner, a process with a source of its own, without    *)
(* the cache.  Each call of S3 or of the model is a step, and so is each    *)
(* time the source's lock is held.  Moderation says what becomes of a      *)
(* verdict.                                                                *)
(***************************************************************************)
EXTENDS Naturals

CONSTANTS
    Requests,    \* slots for inspections in flight
    Files,       \* an upload's name, type and bytes
    Prompts,     \* guidances; any of them may be published at any time
    Blocks,      \* the <<guidance, file>> the model blocks
    Skipped,     \* files of the types buildContent leaves uninspected
    None,
    TTL,         \* CachedSource.TTL
    Latency,     \* bound: between reading the guidance and caching it
    MaxTime      \* bound: the clock stops there

ASSUME IntakeAssumption ==
    /\ None \notin Files \cup Prompts
    /\ Blocks \subseteq Prompts \X Files
    /\ Skipped \subseteq Files
    /\ TTL \in Nat \ {0}
    /\ Latency \in Nat
    /\ MaxTime \in Nat

Time   == 0..MaxTime
Source == [value: Prompts, readAt: Time, expires: Nat, kept: BOOLEAN]
Stored == [file: Files, meta: Files, flagged: BOOLEAN]

Inspection ==
    [by:       {"server", "scan"},
     step:     {"get", "lookup", "ask", "fetch", "store", "model", "remember",
                "verdict"},
     file:     Files \cup {None},
     head:     Stored \cup {None},    \* scan: what HeadObject found
     fp:       Prompts \cup {None},   \* the guidance of the fingerprint
     guidance: Prompts \cup {None},   \* the guidance of the model's request
     got:      Prompts \cup {None},   \* the guidance just read from S3
     readAt:   Time,                  \* when it was
     allowed:  BOOLEAN,
     late:     BOOLEAN,               \* history: used a guidance past its time
     same:     BOOLEAN]               \* history: the object is as HeadObject found it

ASSUME InspectionAssumption == None \notin Inspection /\ None \notin Stored

VARIABLES
    clock,
    prompt,      \* the guidance object in S3
    source,      \* the server's CachedSource
    verdicts,    \* _intake/: the keys of allowed inspections
    req,         \* the inspections in flight
    published,   \* history: the guidances published so far
    swapped      \* history: was a verdict remembered under another guidance's key?

intake == <<clock, prompt, source, verdicts, published, swapped>>

IntakeTypeOK ==
    /\ clock \in Time
    /\ prompt \in Prompts
    /\ source \in Source
    /\ verdicts \in SUBSET (Prompts \X Files)
    /\ req \in [Requests -> Inspection \cup {None}]
    /\ published \in SUBSET Prompts
    /\ swapped \in BOOLEAN

Read(p, now) == [value |-> p, readAt |-> now, expires |-> now + TTL, kept |-> FALSE]

\* BuildPromptSource fetches the guidance once at start.
IntakeInit ==
    /\ clock = 0
    /\ prompt \in Prompts
    /\ source = Read(prompt, 0)
    /\ verdicts = {}
    /\ req = [r \in Requests |-> None]
    /\ published = {prompt}
    /\ swapped = FALSE

-----------------------------------------------------------------------------

At(r, step) == req[r] # None /\ req[r].step = step

Becomes(r, q) == req' = [req EXCEPT ![r] = q]

End(r) == req' = [req EXCEPT ![r] = None]

Start(by, step, f) ==
    [by |-> by, step |-> step, file |-> f, head |-> None, fp |-> None, guidance |-> None,
     got |-> None, readAt |-> 0, allowed |-> FALSE, late |-> FALSE, same |-> TRUE]

\* No read of the guidance takes longer than Latency.
Tick ==
    /\ clock < MaxTime
    /\ \A r \in Requests : At(r, "store") => clock - req[r].readAt < Latency
    /\ clock' = clock + 1
    /\ UNCHANGED <<prompt, source, verdicts, req, published, swapped>>

Publish(p) ==
    /\ p # prompt
    /\ prompt' = p
    /\ published' = published \cup {p}
    /\ UNCHANGED <<clock, source, verdicts, req, swapped>>

-----------------------------------------------------------------------------
(* CachedSource.Fetch: called once for the fingerprint and once for the     *)
(* model's request.                                                        *)

\* The guidance p of the source s serves what the request asked it for.
Serves(q, p, s) ==
    LET late == q.late \/ (~s.kept /\ clock - s.readAt >= TTL + Latency)
        base == [q EXCEPT !.got = None, !.readAt = 0, !.late = late]
    IN  IF q.fp = None
          THEN [base EXCEPT !.step = "lookup", !.fp = p]
          ELSE [base EXCEPT !.step = "model", !.guidance = p]

\* Mutants, here and below: the definition that follows, with a plausible bug.
FreshLate(s) == clock <= s.expires

Fresh(s) == clock < s.expires

Ask(r) ==
    LET q == req[r]
    IN  /\ At(r, "ask")
        /\ q.by = "server"
        /\ Becomes(r, IF Fresh(source) THEN Serves(q, source.value, source)
                                       ELSE [q EXCEPT !.step = "fetch"])
        /\ UNCHANGED intake

\* The lock is not held while the guidance is read, so several requests may read it.
Fetch(r) ==
    LET q == req[r]
    IN  /\ At(r, "fetch")
        /\ Becomes(r, [q EXCEPT !.step = "store", !.got = prompt, !.readAt = clock])
        /\ UNCHANGED intake

StoreFetched(r) ==
    LET q == req[r]
        s == [Read(q.got, q.readAt) EXCEPT !.expires = clock + TTL]
    IN  /\ At(r, "store")
        /\ source' = s
        /\ Becomes(r, Serves(q, q.got, s))
        /\ UNCHANGED <<clock, prompt, verdicts, published, swapped>>

\* The last value is kept, for half as long again.
FetchFails(r) ==
    LET q == req[r]
        s == [source EXCEPT !.expires = clock + TTL \div 2, !.kept = TRUE]
    IN  /\ At(r, "fetch")
        /\ source' = s
        /\ Becomes(r, Serves(q, s.value, s))
        /\ UNCHANGED <<clock, prompt, verdicts, published, swapped>>

\* The scanner's own source may hold any guidance published since it started.
AskScanner(r) ==
    LET q == req[r]
    IN  /\ At(r, "ask")
        /\ q.by = "scan"
        /\ \E p \in published : Becomes(r, [q EXCEPT !.step = "model", !.guidance = p])
        /\ UNCHANGED intake

-----------------------------------------------------------------------------
(* cachedInspector.Inspect and AnthropicInspector.Inspect.                 *)

Verdict(q, allowed) ==
    [q EXCEPT !.step = "verdict", !.allowed = allowed, !.fp = None, !.guidance = None]

\* AnthropicInspector.Inspect: files of some types are allowed as they are.
Inspected(q) ==
    IF q.file \notin Skipped THEN [q EXCEPT !.step = "ask"]
    ELSE IF q.by = "server" THEN [q EXCEPT !.step = "remember"]
    ELSE Verdict(q, TRUE)

AnyFileKey(fp, f) == {fp} \X Files

\* CacheKey: the guidance of the fingerprint with all of the file.
Key(fp, f) == {<<fp, f>>}

\* HasAllowedVerdict; when it fails the file is inspected.
Lookup(r) ==
    LET q == req[r]
    IN  /\ At(r, "lookup")
        /\ \/ /\ Key(q.fp, q.file) \subseteq verdicts
              /\ Becomes(r, Verdict(q, TRUE))
           \/ Becomes(r, Inspected(q))
        /\ UNCHANGED intake

RemembersAny(q, allowed) == q.by = "server"

\* Only the server remembers, and only what was allowed.
Remembers(q, allowed) == q.by = "server" /\ allowed

AskModel(r) ==
    LET q       == req[r]
        allowed == <<q.guidance, q.file>> \notin Blocks
    IN  /\ At(r, "model")
        /\ Becomes(r, IF Remembers(q, allowed) THEN [q EXCEPT !.step = "remember"]
                                                ELSE Verdict(q, allowed))
        /\ UNCHANGED intake

\* PutAllowedVerdict under the key of the fingerprint read before; it may fail.
Remember(r) ==
    LET q == req[r]
    IN  /\ At(r, "remember")
        /\ \/ /\ verdicts' = verdicts \cup Key(q.fp, q.file)
              /\ swapped' = (swapped \/ q.guidance \notin {q.fp, None})
           \/ UNCHANGED <<verdicts, swapped>>
        /\ Becomes(r, Verdict(q, TRUE))
        /\ UNCHANGED <<clock, prompt, source, published>>

Inspect(r) ==
    \/ Ask(r)
    \/ AskScanner(r)
    \/ Fetch(r)
    \/ StoreFetched(r)
    \/ FetchFails(r)
    \/ Lookup(r)
    \/ AskModel(r)
    \/ Remember(r)

=============================================================================
