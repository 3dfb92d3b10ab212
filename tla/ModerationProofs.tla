--------------------------- MODULE ModerationProofs ---------------------------
(***************************************************************************)
(* Proofs about Intake and Moderation for any files, guidances, lifetimes  *)
(* and numbers of inspections: each inspection in flight knows only        *)
(* guidances that were published (Sound), whichever refresh of the cached  *)
(* guidance ends last, and a scan that nothing got between still has the   *)
(* object before it.                                                       *)
(***************************************************************************)
EXTENDS Moderation, TLAPS

BlockedBySome(f) == \E p \in published : <<p, f>> \in Blocks

\* What an inspection has asked and been told by the step it is at.
Asked(q) ==
    /\ q.fp # None => q.fp \in published
    /\ q.guidance # None => q.guidance \in published
    /\ q.step \in {"get", "lookup", "ask", "fetch", "store"} => q.guidance = None
    /\ q.step = "get" => q.by = "scan"
    /\ q.step # "get" => q.file # None
    /\ q.step \in {"fetch", "store", "lookup", "remember"} => q.by = "server"
    /\ q.step \in {"lookup", "remember"} => q.fp # None
    /\ q.step = "model" => q.guidance # None /\ (q.by = "server" => q.fp # None)

\* No read of the guidance is older than the clock's rule allows.
InTime(q) ==
    /\ ~q.late
    /\ q.step = "store" =>
          q.got \in published /\ q.readAt <= clock /\ clock <= q.readAt + Latency

Deserved(q) ==
    /\ q.step = "remember" =>
          \/ q.guidance = None /\ q.file \in Skipped
          \/ q.guidance # None /\ <<q.guidance, q.file>> \notin Blocks
    /\ q.step = "verdict" =>
          /\ q.by = "server" /\ q.allowed /\ ~FailOpen => Passes(q.file)
          /\ ~q.allowed => BlockedBySome(q.file)

\* The object is the one the scan has read.
Undisturbed(q) ==
    q.by = "scan" =>
        /\ q.head # None
        /\ q.same => object = q.head /\ (q.step # "get" => q.file = object.file)

Sound(q) == Asked(q) /\ InTime(q) /\ Deserved(q) /\ Undisturbed(q)

AllSound == \A r \in Requests : req[r] # None => Sound(req[r])

\* The cached guidance was published, and expires when it is too old at the latest.
SourceSound ==
    /\ prompt \in published
    /\ source.value \in published
    /\ ~source.kept => source.expires <= source.readAt + TTL + Latency

\* Whatever key a verdict stands under, some guidance gave it.
VerdictsPass == \A v \in verdicts : Passes(v[2])

StoreInv == StoredWasAllowed /\ FlagDeserved /\ MetadataKept

IInv ==
    /\ TypeOK
    /\ AllSound
    /\ SourceSound
    /\ VerdictsPass
    /\ CacheSoundUnlessSwapped
    /\ StoreInv

-----------------------------------------------------------------------------
(* Lemmas.                                                                 *)

LEMMA NoneFact ==
    None \notin Files /\ None \notin Prompts /\ None \notin Inspection /\ None \notin Stored
BY IntakeAssumption, InspectionAssumption

LEMMA HereFact ==
    ASSUME IInv, NEW r \in Requests, req[r] # None
    PROVE  req[r] \in Inspection /\ Sound(req[r])
BY DEF IInv, TypeOK, IntakeTypeOK, AllSound

LEMMA PassesFact ==
    ASSUME NEW f, published \subseteq published'
    PROVE  /\ Passes(f) => Passes(f)'
           /\ BlockedBySome(f) => BlockedBySome(f)'
BY DEF Passes, BlockedBySome

(* What an inspection knows stays true when others go on and guidances are  *)
(* published, as long as the clock and the object stand.                    *)
LEMMA KeepsFact ==
    ASSUME NEW q \in Inspection, Sound(q), published \subseteq published',
           UNCHANGED <<clock, object>>
    PROVE  Sound(q)'
<1>1. Asked(q)'
  BY DEF Sound, Asked
<1>2. InTime(q)'
  BY DEF Sound, InTime
<1>3. Deserved(q)'
  BY PassesFact DEF Sound, Deserved
<1>4. Undisturbed(q)'
  BY DEF Sound, Undisturbed
<1>. QED BY <1>1, <1>2, <1>3, <1>4 DEF Sound

(* A step of one inspection that leaves clock, object and guidances alone.  *)
LEMMA StepFact ==
    ASSUME IInv, NEW r \in Requests, NEW n \in Inspection \cup {None}, Becomes(r, n),
           n # None => Sound(n), UNCHANGED <<clock, object, published>>
    PROVE  /\ req' \in [Requests -> Inspection \cup {None}]
           /\ AllSound'
<1>0. req \in [Requests -> Inspection \cup {None}] /\ req' = [req EXCEPT ![r] = n]
  BY DEF IInv, TypeOK, IntakeTypeOK, Becomes
<1>1. req' \in [Requests -> Inspection \cup {None}]
  BY <1>0
<1>2. AllSound'
  <2>. SUFFICES ASSUME NEW x \in Requests, req'[x] # None PROVE Sound(req[x])'
    BY DEF AllSound
  <2>1. PICK q \in Inspection : q = req'[x]
    BY <1>1
  <2>2. Sound(q)
    BY <1>0, <2>1 DEF IInv, AllSound
  <2>3. Sound(q)'
    BY <2>2, KeepsFact
  <2>. QED BY <2>1, <2>3
<1>. QED BY <1>1, <1>2

(* A step that changes nothing else.                                        *)
LEMMA QuietFact ==
    ASSUME IInv, NEW r \in Requests, NEW n \in Inspection \cup {None}, Becomes(r, n),
           n # None => Sound(n), UNCHANGED <<intake, store>>
    PROVE  IInv'
<1>1. UNCHANGED <<clock, prompt, source, verdicts, published, swapped, object, mixed>>
  BY DEF intake, store
<1>2. TypeOK' /\ AllSound'
  BY <1>1, StepFact DEF IInv, TypeOK, IntakeTypeOK
<1>3. SourceSound'
  BY <1>1 DEF IInv, SourceSound
<1>4. VerdictsPass'
  BY <1>1 DEF IInv, VerdictsPass, Passes
<1>5. CacheSoundUnlessSwapped'
  BY <1>1 DEF IInv, CacheSoundUnlessSwapped, CacheSound
<1>6. StoreInv'
  BY <1>1 DEF IInv, StoreInv, StoredWasAllowed, FlagDeserved, MetadataKept, Passes
<1>. QED BY <1>2, <1>3, <1>4, <1>5, <1>6 DEF IInv

LEMMA EndsFact ==
    ASSUME IInv, NEW r \in Requests, End(r), UNCHANGED <<intake, store>>
    PROVE  IInv'
BY QuietFact DEF End, Becomes

LEMMA InitInv == Init => IInv
<1>. SUFFICES ASSUME Init PROVE IInv
  OBVIOUS
<1>1. source = Read(prompt, 0) /\ prompt \in Prompts /\ clock = 0 /\ published = {prompt}
  BY DEF Init, IntakeInit
<1>2. /\ source \in Source /\ source.value = prompt /\ source.readAt = 0 /\ source.expires = TTL
  BY <1>1, IntakeAssumption DEF Read, Source, Time
<1>3. TypeOK
  <2>1. clock \in Time /\ source \in Source /\ prompt \in Prompts /\ published \in SUBSET Prompts
    BY <1>1, <1>2, IntakeAssumption DEF Time
  <2>2. req \in [Requests -> Inspection \cup {None}]
    BY DEF Init, IntakeInit
  <2>. QED BY <2>1, <2>2 DEF Init, IntakeInit, TypeOK, IntakeTypeOK
<1>4. SourceSound
  BY <1>1, <1>2, IntakeAssumption DEF SourceSound
<1>. QED BY <1>3, <1>4 DEF Init, IntakeInit, IInv, AllSound, VerdictsPass,
           CacheSoundUnlessSwapped, CacheSound, StoreInv, StoredWasAllowed, FlagDeserved, MetadataKept

-----------------------------------------------------------------------------
(* The guidance.                                                           *)

(* Guidance p, of a source s not too old, serves what it was asked for.     *)
LEMMA ServesFact ==
    ASSUME IInv, NEW r \in Requests, req[r] # None, req[r].step \in {"ask", "fetch", "store"},
           req[r].by = "server", NEW p \in published, NEW s \in Source,
           s.kept \/ clock < s.readAt + TTL + Latency
    PROVE  Serves(req[r], p, s) \in Inspection /\ Sound(Serves(req[r], p, s))
<1>0. req[r] \in Inspection /\ Sound(req[r]) /\ p \in Prompts /\ p # None /\ clock \in Nat
  BY HereFact, NoneFact, IntakeAssumption DEF IInv, TypeOK, IntakeTypeOK, Time
<1>1. PICK q \in Inspection : q = req[r]
  BY <1>0
<1>2. /\ ~q.late /\ q.file # None /\ q.guidance = None /\ q.by = "server"
      /\ q.fp # None => q.fp \in published
  BY <1>0, <1>1 DEF Sound, Asked, InTime
<1>3. ~(~s.kept /\ clock - s.readAt >= TTL + Latency)
  BY <1>0, IntakeAssumption DEF Source, Time
<1>4. PICK base : base = [q EXCEPT !.got = None, !.readAt = 0,
                          !.late = q.late \/ (~s.kept /\ clock - s.readAt >= TTL + Latency)]
  OBVIOUS
<1>5. (q.late \/ (~s.kept /\ clock - s.readAt >= TTL + Latency)) = FALSE
  BY <1>2, <1>3
<1>6. base = [q EXCEPT !.got = None, !.readAt = 0, !.late = FALSE]
  BY <1>4, <1>5
<1>7. /\ base \in Inspection /\ ~base.late /\ base.by = "server" /\ base.fp = q.fp
      /\ base.guidance = None /\ base.file = q.file
  <2>1. 0 \in Time
    BY IntakeAssumption DEF Time
  <2>2. base \in Inspection
    BY <1>0, <1>1, <1>6, <2>1 DEF Inspection
  <2>. QED BY <1>0, <1>1, <1>2, <1>6, <2>2 DEF Inspection
<1>8. Serves(q, p, s) = IF q.fp = None
                          THEN [base EXCEPT !.step = "lookup", !.fp = p]
                          ELSE [base EXCEPT !.step = "model", !.guidance = p]
  BY <1>4 DEF Serves
<1>9. CASE q.fp = None
  <2>1. PICK n : n = [base EXCEPT !.step = "lookup", !.fp = p]
    OBVIOUS
  <2>2. /\ n \in Inspection /\ n.step = "lookup" /\ n.fp = p /\ ~n.late /\ n.by = "server"
        /\ n.guidance = None /\ n.file = q.file
    BY <1>0, <1>2, <1>7, <2>1 DEF Inspection
  <2>3. Sound(n)
    BY <1>0, <1>2, <2>2 DEF Sound, Asked, InTime, Deserved, Undisturbed
  <2>. QED BY <1>1, <1>8, <1>9, <2>1, <2>2, <2>3
<1>10. CASE q.fp # None
  <2>1. PICK n : n = [base EXCEPT !.step = "model", !.guidance = p]
    OBVIOUS
  <2>2. /\ n \in Inspection /\ n.step = "model" /\ n.fp = q.fp /\ ~n.late /\ n.by = "server"
        /\ n.guidance = p /\ n.file = q.file
    BY <1>0, <1>2, <1>7, <2>1 DEF Inspection
  <2>3. Sound(n)
    BY <1>0, <1>2, <1>10, <2>2 DEF Sound, Asked, InTime, Deserved, Undisturbed
  <2>. QED BY <1>1, <1>8, <1>10, <2>1, <2>2, <2>3
<1>. QED BY <1>9, <1>10

(* The source may change, as long as it stays sound.                        *)
LEMMA SourceFact ==
    ASSUME IInv, NEW r \in Requests, NEW n \in Inspection, Becomes(r, n), Sound(n),
           source' \in Source, source'.value \in published,
           ~source'.kept => source'.expires <= source'.readAt + TTL + Latency,
           UNCHANGED <<clock, prompt, verdicts, published, swapped, store>>
    PROVE  IInv'
<1>1. UNCHANGED <<object, mixed>>
  BY DEF store
<1>2. TypeOK' /\ AllSound'
  BY <1>1, StepFact DEF IInv, TypeOK, IntakeTypeOK
<1>3. SourceSound'
  BY DEF IInv, SourceSound
<1>4. VerdictsPass' /\ CacheSoundUnlessSwapped'
  BY DEF IInv, VerdictsPass, Passes, CacheSoundUnlessSwapped, CacheSound
<1>5. StoreInv'
  BY <1>1 DEF IInv, StoreInv, StoredWasAllowed, FlagDeserved, MetadataKept, Passes
<1>. QED BY <1>2, <1>3, <1>4, <1>5 DEF IInv

LEMMA AskFact == ASSUME IInv, NEW r \in Requests, Ask(r), UNCHANGED store PROVE IInv'
<1>0. /\ req[r] # None /\ req[r].step = "ask" /\ req[r].by = "server"
      /\ req[r] \in Inspection /\ Sound(req[r]) /\ source \in Source /\ clock \in Nat
      /\ source.value \in published
      /\ ~source.kept => source.expires <= source.readAt + TTL + Latency
  BY HereFact, IntakeAssumption DEF Ask, At, IInv, TypeOK, IntakeTypeOK, Time, SourceSound
<1>1. CASE Fresh(source)
  <2>1. source.kept \/ clock < source.readAt + TTL + Latency
    BY <1>0, <1>1, IntakeAssumption DEF Fresh, Source, Time
  <2>2. /\ Serves(req[r], source.value, source) \in Inspection
        /\ Sound(Serves(req[r], source.value, source))
    BY <1>0, <2>1, ServesFact
  <2>3. Becomes(r, Serves(req[r], source.value, source))
    BY <1>1 DEF Ask
  <2>. QED BY <2>2, <2>3, QuietFact DEF Ask
<1>2. CASE ~Fresh(source)
  <2>1. PICK n : n = [req[r] EXCEPT !.step = "fetch"]
    OBVIOUS
  <2>2. /\ n \in Inspection /\ n.step = "fetch" /\ n.by = "server" /\ n.fp = req[r].fp
        /\ n.guidance = req[r].guidance /\ n.file = req[r].file /\ n.late = req[r].late
    BY <1>0, <2>1 DEF Inspection
  <2>3. Sound(n)
    BY <1>0, <2>2 DEF Sound, Asked, InTime, Deserved, Undisturbed
  <2>4. Becomes(r, n)
    BY <1>2, <2>1 DEF Ask
  <2>. QED BY <2>2, <2>3, <2>4, QuietFact DEF Ask
<1>. QED BY <1>1, <1>2

LEMMA FetchFact == ASSUME IInv, NEW r \in Requests, Fetch(r), UNCHANGED store PROVE IInv'
<1>0. /\ req[r] # None /\ req[r].step = "fetch" /\ req[r] \in Inspection /\ Sound(req[r])
      /\ prompt \in Prompts /\ prompt \in published /\ clock \in Time
  BY HereFact DEF Fetch, At, IInv, TypeOK, IntakeTypeOK, SourceSound
<1>1. PICK n : n = [req[r] EXCEPT !.step = "store", !.got = prompt, !.readAt = clock]
  OBVIOUS
<1>2. /\ n \in Inspection /\ n.step = "store" /\ n.by = req[r].by /\ n.fp = req[r].fp
      /\ n.guidance = req[r].guidance /\ n.file = req[r].file /\ n.late = req[r].late
      /\ n.got = prompt /\ n.readAt = clock
  BY <1>0, <1>1 DEF Inspection
<1>3. Sound(n)
  <2>1. Asked(n) /\ Deserved(n) /\ Undisturbed(n)
    BY <1>0, <1>2 DEF Sound, Asked, Deserved, Undisturbed
  <2>2. InTime(n)
    BY <1>0, <1>2, IntakeAssumption DEF Sound, InTime, Time
  <2>. QED BY <2>1, <2>2 DEF Sound
<1>. QED BY <1>1, <1>2, <1>3, QuietFact DEF Fetch

LEMMA StoreFetchedFact ==
    ASSUME IInv, NEW r \in Requests, StoreFetched(r), UNCHANGED store PROVE IInv'
<1>0. /\ req[r] # None /\ req[r].step = "store" /\ req[r] \in Inspection /\ Sound(req[r])
      /\ req[r].by = "server" /\ req[r].got \in published /\ req[r].got \in Prompts
      /\ req[r].readAt <= clock /\ clock <= req[r].readAt + Latency
      /\ clock \in Time /\ req[r].readAt \in Time
  BY HereFact, NoneFact
     DEF StoreFetched, At, IInv, TypeOK, IntakeTypeOK, Sound, Asked, InTime, Inspection
<1>1. PICK s : s = [Read(req[r].got, req[r].readAt) EXCEPT !.expires = clock + TTL]
  OBVIOUS
<1>2. /\ s \in Source /\ s.value = req[r].got /\ s.readAt = req[r].readAt
      /\ s.expires = clock + TTL /\ ~s.kept
  <2>1. clock + TTL \in Nat
    BY <1>0, IntakeAssumption DEF Time
  <2>2. s = [value |-> req[r].got, readAt |-> req[r].readAt, expires |-> clock + TTL,
             kept |-> FALSE]
    BY <1>1 DEF Read
  <2>. QED BY <1>0, <2>1, <2>2 DEF Source
<1>3. clock < s.readAt + TTL + Latency /\ s.expires <= s.readAt + TTL + Latency
  BY <1>0, <1>2, IntakeAssumption DEF Time
<1>4. Serves(req[r], req[r].got, s) \in Inspection /\ Sound(Serves(req[r], req[r].got, s))
  BY <1>0, <1>2, <1>3, ServesFact
<1>5. source' = s /\ Becomes(r, Serves(req[r], req[r].got, s))
  BY <1>1 DEF StoreFetched
<1>. QED BY <1>0, <1>2, <1>3, <1>4, <1>5, SourceFact DEF StoreFetched

LEMMA FetchFailsFact ==
    ASSUME IInv, NEW r \in Requests, FetchFails(r), UNCHANGED store PROVE IInv'
<1>0. /\ req[r] # None /\ req[r].step = "fetch" /\ req[r] \in Inspection /\ Sound(req[r])
      /\ req[r].by = "server" /\ source \in Source /\ source.value \in published /\ clock \in Nat
  BY HereFact, IntakeAssumption
     DEF FetchFails, At, IInv, TypeOK, IntakeTypeOK, Sound, Asked, SourceSound, Time
<1>1. PICK s : s = [source EXCEPT !.expires = clock + TTL \div 2, !.kept = TRUE]
  OBVIOUS
<1>2. clock + TTL \div 2 \in Nat
  BY <1>0, IntakeAssumption
<1>3. s \in Source /\ s.value = source.value /\ s.kept
  BY <1>0, <1>1, <1>2 DEF Source
<1>4. Serves(req[r], s.value, s) \in Inspection /\ Sound(Serves(req[r], s.value, s))
  BY <1>0, <1>3, ServesFact
<1>5. source' = s /\ Becomes(r, Serves(req[r], s.value, s))
  BY <1>1 DEF FetchFails
<1>. QED BY <1>0, <1>3, <1>4, <1>5, SourceFact DEF FetchFails

LEMMA AskScannerFact == ASSUME IInv, NEW r \in Requests, AskScanner(r), UNCHANGED store PROVE IInv'
<1>0. /\ req[r] # None /\ req[r].step = "ask" /\ req[r] \in Inspection /\ Sound(req[r])
      /\ req[r].by = "scan" /\ published \subseteq Prompts
  BY HereFact DEF AskScanner, At, IInv, TypeOK, IntakeTypeOK
<1>1. PICK p \in published : Becomes(r, [req[r] EXCEPT !.step = "model", !.guidance = p])
  BY DEF AskScanner
<1>2. PICK n : n = [req[r] EXCEPT !.step = "model", !.guidance = p]
  OBVIOUS
<1>3. /\ n \in Inspection /\ n.step = "model" /\ n.by = "scan" /\ n.fp = req[r].fp
      /\ n.guidance = p /\ n.file = req[r].file /\ n.late = req[r].late
      /\ n.head = req[r].head /\ n.same = req[r].same
  BY <1>0, <1>2 DEF Inspection
<1>4. p # None
  BY <1>0, NoneFact
<1>5. Sound(n)
  BY <1>0, <1>3, <1>4 DEF Sound, Asked, InTime, Deserved, Undisturbed
<1>. QED BY <1>1, <1>2, <1>3, <1>5, QuietFact DEF AskScanner

-----------------------------------------------------------------------------
(* The cache and the model.                                                *)

LEMMA VerdictFact ==
    ASSUME NEW q \in Inspection, Asked(q), InTime(q), Undisturbed(q), q.step # "get",
           NEW a \in BOOLEAN,
           q.by = "server" /\ a /\ ~FailOpen => Passes(q.file),
           ~a => BlockedBySome(q.file)
    PROVE  Verdict(q, a) \in Inspection /\ Sound(Verdict(q, a))
<1>1. PICK n : n = Verdict(q, a)
  OBVIOUS
<1>2. /\ n \in Inspection /\ n.step = "verdict" /\ n.allowed = a /\ n.fp = None
      /\ n.guidance = None /\ n.by = q.by /\ n.file = q.file /\ n.late = q.late
      /\ n.head = q.head /\ n.same = q.same
  BY <1>1 DEF Verdict, Inspection
<1>3. Asked(n)
  BY <1>2 DEF Asked
<1>4. InTime(n) /\ Undisturbed(n)
  BY <1>2 DEF InTime, Undisturbed
<1>5. Deserved(n)
  BY <1>2 DEF Deserved
<1>. QED BY <1>1, <1>2, <1>3, <1>4, <1>5 DEF Sound

LEMMA InspectedFact ==
    ASSUME NEW q \in Inspection, q.file # None, q.guidance = None, ~q.late,
           q.fp # None => q.fp \in published, q.by = "server" => q.fp # None,
           q.by = "scan" => q.head # None /\ (q.same => object = q.head /\ q.file = object.file)
    PROVE  Inspected(q) \in Inspection /\ Sound(Inspected(q))
<1>0. q.by \in {"server", "scan"}
  BY DEF Inspection
<1>1. PICK n : n = Inspected(q)
  OBVIOUS
<1>2. CASE q.file \notin Skipped
  <2>1. /\ n \in Inspection /\ n.step = "ask" /\ n.fp = q.fp /\ n.guidance = None
        /\ n.by = q.by /\ n.file = q.file /\ ~n.late /\ n.head = q.head /\ n.same = q.same
    BY <1>1, <1>2 DEF Inspected, Inspection
  <2>2. Sound(n)
    BY <2>1 DEF Sound, Asked, InTime, Deserved, Undisturbed
  <2>. QED BY <1>1, <2>1, <2>2
<1>3. CASE q.file \in Skipped /\ q.by = "server"
  <2>1. /\ n \in Inspection /\ n.step = "remember" /\ n.fp = q.fp /\ n.guidance = None
        /\ n.by = q.by /\ n.file = q.file /\ ~n.late /\ n.head = q.head /\ n.same = q.same
    BY <1>1, <1>3 DEF Inspected, Inspection
  <2>2. Sound(n)
    BY <1>3, <2>1 DEF Sound, Asked, InTime, Deserved, Undisturbed
  <2>. QED BY <1>1, <2>1, <2>2
<1>4. CASE q.file \in Skipped /\ q.by = "scan"
  <2>1. n = Verdict(q, TRUE)
    BY <1>1, <1>4 DEF Inspected
  <2>2. /\ n \in Inspection /\ n.step = "verdict" /\ n.allowed = TRUE /\ n.fp = None
        /\ n.guidance = None /\ n.by = q.by /\ n.file = q.file /\ ~n.late
        /\ n.head = q.head /\ n.same = q.same
    BY <2>1 DEF Verdict, Inspection
  <2>3. Sound(n)
    BY <1>4, <2>2 DEF Sound, Asked, InTime, Deserved, Undisturbed
  <2>. QED BY <1>1, <2>2, <2>3
<1>. QED BY <1>0, <1>2, <1>3, <1>4

LEMMA LookupFact == ASSUME IInv, NEW r \in Requests, Lookup(r), UNCHANGED store PROVE IInv'
<1>0. /\ req[r] # None /\ req[r].step = "lookup" /\ req[r] \in Inspection /\ Sound(req[r])
      /\ UNCHANGED <<intake, store>>
  BY HereFact DEF Lookup, At
<1>1. /\ req[r].by = "server" /\ req[r].fp # None /\ req[r].fp \in published
      /\ req[r].file # None /\ req[r].guidance = None /\ ~req[r].late
  BY <1>0 DEF Sound, Asked, InTime
<1>2. CASE /\ Key(req[r].fp, req[r].file) \subseteq verdicts
           /\ Becomes(r, Verdict(req[r], TRUE))
  <2>1. <<req[r].fp, req[r].file>> \in verdicts
    BY <1>2 DEF Key
  <2>2. Passes(req[r].file)
    BY <2>1 DEF IInv, VerdictsPass
  <2>3. Verdict(req[r], TRUE) \in Inspection /\ Sound(Verdict(req[r], TRUE))
    BY <1>0, <2>2, VerdictFact DEF Sound
  <2>. QED BY <1>0, <1>2, <2>3, QuietFact
<1>3. CASE Becomes(r, Inspected(req[r]))
  <2>1. Inspected(req[r]) \in Inspection /\ Sound(Inspected(req[r]))
    BY <1>0, <1>1, InspectedFact
  <2>. QED BY <1>0, <1>3, <2>1, QuietFact
<1>. QED BY <1>2, <1>3 DEF Lookup

LEMMA AskModelFact == ASSUME IInv, NEW r \in Requests, AskModel(r), UNCHANGED store PROVE IInv'
<1>0. /\ req[r] # None /\ req[r].step = "model" /\ req[r] \in Inspection /\ Sound(req[r])
      /\ UNCHANGED <<intake, store>>
  BY HereFact DEF AskModel, At
<1>1. /\ req[r].guidance # None /\ req[r].guidance \in published /\ req[r].file # None
      /\ req[r].by = "server" => req[r].fp # None
      /\ req[r].by \in {"server", "scan"}
  BY <1>0 DEF Sound, Asked, Inspection
<1>2. PICK a \in BOOLEAN : a = (<<req[r].guidance, req[r].file>> \notin Blocks)
  OBVIOUS
<1>3. Becomes(r, IF Remembers(req[r], a) THEN [req[r] EXCEPT !.step = "remember"]
                                          ELSE Verdict(req[r], a))
  BY <1>2 DEF AskModel
<1>4. CASE Remembers(req[r], a)
  <2>1. PICK n : n = [req[r] EXCEPT !.step = "remember"]
    OBVIOUS
  <2>2. /\ n \in Inspection /\ n.step = "remember" /\ n.by = "server" /\ n.fp = req[r].fp
        /\ n.guidance = req[r].guidance /\ n.file = req[r].file /\ n.late = req[r].late
    BY <1>0, <1>4, <2>1 DEF Inspection, Remembers
  <2>3. <<n.guidance, n.file>> \notin Blocks
    BY <1>2, <1>4, <2>2 DEF Remembers
  <2>4. Asked(n)
    BY <1>0, <1>1, <1>4, <2>2 DEF Sound, Asked, Remembers
  <2>5. InTime(n) /\ Deserved(n) /\ Undisturbed(n)
    BY <1>0, <1>1, <2>2, <2>3 DEF Sound, InTime, Deserved, Undisturbed
  <2>. QED BY <1>0, <1>3, <1>4, <2>1, <2>2, <2>4, <2>5, QuietFact DEF Sound
<1>5. CASE ~Remembers(req[r], a)
  <2>1. req[r].by = "server" /\ a /\ ~FailOpen => Passes(req[r].file)
    BY <1>1, <1>2 DEF Passes
  <2>2. ~a => BlockedBySome(req[r].file)
    BY <1>1, <1>2 DEF BlockedBySome
  <2>3. Verdict(req[r], a) \in Inspection /\ Sound(Verdict(req[r], a))
    BY <1>0, <2>1, <2>2, VerdictFact DEF Sound
  <2>. QED BY <1>0, <1>3, <1>5, <2>3, QuietFact
<1>. QED BY <1>4, <1>5

LEMMA RememberFact == ASSUME IInv, NEW r \in Requests, Remember(r), UNCHANGED store PROVE IInv'
<1>0. /\ req[r] # None /\ req[r].step = "remember" /\ req[r] \in Inspection /\ Sound(req[r])
      /\ UNCHANGED <<clock, prompt, source, published, object, mixed>>
      /\ Becomes(r, Verdict(req[r], TRUE))
  BY HereFact DEF Remember, At, store
<1>1. PICK q \in Inspection : q = req[r]
  BY <1>0
<1>2. /\ q.fp \in Prompts /\ q.file \in Files
      /\ \/ q.guidance = None /\ q.file \in Skipped
         \/ q.guidance # None /\ q.guidance \in published /\ <<q.guidance, q.file>> \notin Blocks
  BY <1>0, <1>1 DEF Sound, Asked, Deserved, Inspection
<1>3. Passes(q.file)
  BY <1>2 DEF Passes
<1>4. Verdict(q, TRUE) \in Inspection /\ Sound(Verdict(q, TRUE))
  BY <1>0, <1>1, <1>3, VerdictFact DEF Sound
<1>5. req' \in [Requests -> Inspection \cup {None}] /\ AllSound'
  BY <1>0, <1>1, <1>4, StepFact
<1>6. \/ /\ verdicts' = verdicts \cup {<<q.fp, q.file>>}
         /\ swapped' = (swapped \/ q.guidance \notin {q.fp, None})
      \/ UNCHANGED <<verdicts, swapped>>
  BY <1>1 DEF Remember, Key
<1>7. TypeOK'
  <2>1. verdicts' \in SUBSET (Prompts \X Files)
    BY <1>2, <1>6 DEF IInv, TypeOK, IntakeTypeOK
  <2>2. PICK b \in BOOLEAN : b = (swapped \/ q.guidance \notin {q.fp, None})
    OBVIOUS
  <2>3. swapped' \in BOOLEAN
    BY <1>6, <2>2 DEF IInv, TypeOK, IntakeTypeOK
  <2>. QED BY <1>0, <1>5, <2>1, <2>3 DEF IInv, TypeOK, IntakeTypeOK
<1>8. SourceSound'
  BY <1>0 DEF IInv, SourceSound
<1>9. VerdictsPass'
  <2>. SUFFICES ASSUME NEW v \in verdicts' PROVE Passes(v[2])
    BY <1>0 DEF VerdictsPass, Passes
  <2>1. v \in verdicts \/ v = <<q.fp, q.file>>
    BY <1>6
  <2>. QED BY <1>3, <2>1 DEF IInv, VerdictsPass
<1>10. CacheSoundUnlessSwapped'
  <2>. SUFFICES ASSUME ~swapped', NEW v \in verdicts' PROVE v \notin Blocks \/ v[2] \in Skipped
    BY DEF CacheSoundUnlessSwapped, CacheSound
  <2>1. CASE v \in verdicts
    BY <1>6, <2>1 DEF IInv, CacheSoundUnlessSwapped, CacheSound
  <2>2. CASE v \notin verdicts
    <3>1. v = <<q.fp, q.file>> /\ (q.guidance = q.fp \/ q.guidance = None)
      BY <1>6, <2>2
    <3>. QED BY <1>2, <3>1
  <2>. QED BY <2>1, <2>2
<1>11. StoreInv'
  BY <1>0 DEF IInv, StoreInv, StoredWasAllowed, FlagDeserved, MetadataKept, Passes
<1>. QED BY <1>5, <1>7, <1>8, <1>9, <1>10, <1>11 DEF IInv

-----------------------------------------------------------------------------
(* The upload gate.                                                        *)

LEMMA StartUploadFact ==
    ASSUME IInv, NEW r \in Requests, NEW f \in Files, StartUpload(r, f) PROVE IInv'
<1>1. PICK n : n = Start("server", "ask", f)
  OBVIOUS
<1>2. 0 \in Time
  BY IntakeAssumption DEF Time
<1>3. /\ n \in Inspection /\ n.step = "ask" /\ n.by = "server" /\ n.fp = None
      /\ n.guidance = None /\ n.file = f /\ ~n.late
  BY <1>1, <1>2 DEF Start, Inspection
<1>4. Sound(n)
  BY <1>3, NoneFact DEF Sound, Asked, InTime, Deserved, Undisturbed
<1>. QED BY <1>1, <1>3, <1>4, QuietFact DEF StartUpload

LEMMA UploadUninspectedFact ==
    ASSUME IInv, NEW r \in Requests, UploadUninspected(r) PROVE IInv'
<1>0. /\ req[r] # None /\ req[r].step = "model" /\ req[r].by = "server"
      /\ req[r] \in Inspection /\ Sound(req[r]) /\ UNCHANGED <<intake, store>>
  BY HereFact DEF UploadUninspected, At
<1>1. CASE FailOpen
  <2>1. Verdict(req[r], TRUE) \in Inspection /\ Sound(Verdict(req[r], TRUE))
    BY <1>0, <1>1, VerdictFact DEF Sound
  <2>2. Becomes(r, Verdict(req[r], TRUE))
    BY <1>1 DEF UploadUninspected
  <2>. QED BY <1>0, <2>1, <2>2, QuietFact
<1>2. CASE ~FailOpen
  BY <1>0, <1>2, EndsFact DEF UploadUninspected
<1>. QED BY <1>1, <1>2

(* When the object changes, every other scan is outdated.                   *)
LEMMA OutdatedFact ==
    ASSUME IInv, UNCHANGED intake, req' = [x \in Requests |-> req'[x]],
           \A x \in Requests : req'[x] = None \/ req'[x] = Outdated(req[x])
    PROVE  req' \in [Requests -> Inspection \cup {None}] /\ AllSound'
<1>0. UNCHANGED <<clock, published>>
  BY DEF intake
<1>1. ASSUME NEW x \in Requests, req'[x] # None
      PROVE  req'[x] \in Inspection /\ Sound(req[x])'
  <2>0. req[x] # None /\ req'[x] = Outdated(req[x])
    BY <1>1 DEF Outdated
  <2>1. PICK q \in Inspection : q = req[x] /\ Sound(q)
    BY <2>0, HereFact
  <2>2. PICK n : n = Outdated(q)
    OBVIOUS
  <2>3. /\ n \in Inspection /\ n.step = q.step /\ n.by = q.by /\ n.fp = q.fp
        /\ n.guidance = q.guidance /\ n.file = q.file /\ n.late = q.late /\ n.head = q.head
        /\ n.got = q.got /\ n.readAt = q.readAt /\ n.allowed = q.allowed
        /\ n.by = "scan" => n.same = FALSE
    <3>1. q # None
      BY <2>0, <2>1
    <3>2. CASE q.by = "scan"
      <4>1. n = [q EXCEPT !.same = FALSE]
        BY <2>2, <3>1, <3>2 DEF Outdated
      <4>. QED BY <2>1, <4>1 DEF Inspection
    <3>3. CASE q.by # "scan"
      BY <2>1, <2>2, <3>3 DEF Outdated
    <3>. QED BY <3>2, <3>3
  <2>4. Asked(n)' /\ InTime(n)'
    BY <1>0, <2>1, <2>3 DEF Sound, Asked, InTime
  <2>5. Deserved(q)'
    BY <1>0, <2>1 DEF Sound, Deserved, Passes, BlockedBySome
  <2>6. Deserved(n)'
    BY <2>3, <2>5 DEF Deserved
  <2>7. Undisturbed(n)'
    BY <2>1, <2>3 DEF Sound, Undisturbed
  <2>8. req'[x] = n
    BY <2>0, <2>1, <2>2
  <2>. QED BY <2>3, <2>4, <2>6, <2>7, <2>8 DEF Sound
<1>2. req' \in [Requests -> Inspection \cup {None}]
  BY <1>1
<1>. QED BY <1>1, <1>2 DEF AllSound

LEMMA EndChangedFact ==
    ASSUME IInv, UNCHANGED intake, NEW r \in Requests, EndChanged(r)
    PROVE  req' \in [Requests -> Inspection \cup {None}] /\ AllSound'
<1>1. req' = [x \in Requests |-> req'[x]]
  BY DEF EndChanged
<1>2. \A x \in Requests : req'[x] = None \/ req'[x] = Outdated(req[x])
  BY DEF EndChanged
<1>. QED BY <1>1, <1>2, OutdatedFact

(* A step that changes the object and its history only.                     *)
LEMMA ChangedFact ==
    ASSUME IInv, UNCHANGED intake, req' \in [Requests -> Inspection \cup {None}], AllSound',
           object' \in Stored \cup {None}, mixed' \in BOOLEAN, StoreInv'
    PROVE  IInv'
<1>1. UNCHANGED <<clock, prompt, source, verdicts, published, swapped>>
  BY DEF intake
<1>2. TypeOK'
  BY <1>1 DEF IInv, TypeOK, IntakeTypeOK
<1>3. SourceSound' /\ VerdictsPass'
  BY <1>1 DEF IInv, SourceSound, VerdictsPass, Passes
<1>4. CacheSoundUnlessSwapped'
  BY <1>1 DEF IInv, CacheSoundUnlessSwapped, CacheSound
<1>. QED BY <1>2, <1>3, <1>4 DEF IInv

LEMMA AdmitFact == ASSUME IInv, NEW r \in Requests, Admit(r) PROVE IInv'
<1>0. /\ req[r] # None /\ req[r].step = "verdict" /\ req[r].by = "server" /\ req[r].allowed
      /\ req[r] \in Inspection /\ Sound(req[r]) /\ UNCHANGED intake /\ mixed' = FALSE
      /\ EndChanged(r)
  BY HereFact DEF Admit, At
<1>1. req[r].file \in Files /\ (~FailOpen => Passes(req[r].file))
  BY <1>0 DEF Sound, Asked, Deserved, Inspection
<1>2. object' = [file |-> req[r].file, meta |-> req[r].file, flagged |-> FALSE]
  BY DEF Admit
<1>3. /\ object' \in Stored /\ object'.file = req[r].file /\ object'.meta = req[r].file
      /\ object'.flagged = FALSE
  BY <1>1, <1>2 DEF Stored
<1>4. StoreInv'
  BY <1>0, <1>1, <1>3
     DEF StoreInv, StoredWasAllowed, FlagDeserved, MetadataKept, Passes, intake
<1>5. req' \in [Requests -> Inspection \cup {None}] /\ AllSound'
  BY <1>0, EndChangedFact
<1>. QED BY <1>0, <1>3, <1>4, <1>5, ChangedFact

LEMMA DeleteFact == ASSUME IInv, Delete PROVE IInv'
<1>1. req' \in [Requests -> Inspection \cup {None}] /\ AllSound'
  <2>1. req' = [x \in Requests |-> req'[x]]
    BY DEF Delete
  <2>2. \A x \in Requests : req'[x] = None \/ req'[x] = Outdated(req[x])
    BY DEF Delete
  <2>. QED BY <2>1, <2>2, OutdatedFact DEF Delete
<1>2. StoreInv'
  BY DEF Delete, StoreInv, StoredWasAllowed, FlagDeserved, MetadataKept
<1>. QED BY <1>1, <1>2, ChangedFact DEF Delete

-----------------------------------------------------------------------------
(* The scanner.                                                            *)

LEMMA ScanHeadFact == ASSUME IInv, NEW r \in Requests, ScanHead(r) PROVE IInv'
<1>0. object \in Stored /\ 0 \in Time
  BY IntakeAssumption DEF ScanHead, IInv, TypeOK, Time
<1>1. PICK n : n = [Start("scan", "get", None) EXCEPT !.head = object]
  OBVIOUS
<1>2. /\ n \in Inspection /\ n.step = "get" /\ n.by = "scan" /\ n.fp = None
      /\ n.guidance = None /\ ~n.late /\ n.head = object
  BY <1>0, <1>1 DEF Start, Inspection
<1>3. Sound(n)
  BY <1>0, <1>2, NoneFact DEF Sound, Asked, InTime, Deserved, Undisturbed
<1>. QED BY <1>1, <1>2, <1>3, QuietFact DEF ScanHead

LEMMA ScanGetFact == ASSUME IInv, NEW r \in Requests, ScanGet(r) PROVE IInv'
<1>0. /\ req[r] # None /\ req[r].step = "get" /\ req[r] \in Inspection /\ Sound(req[r])
      /\ UNCHANGED <<intake, store>>
  BY HereFact DEF ScanGet, At
<1>1. CASE object = None
  BY <1>0, <1>1, EndsFact DEF ScanGet
<1>2. CASE object # None
  <2>0. object \in Stored /\ object.file \in Files /\ object.file # None
    BY <1>2, NoneFact DEF IInv, TypeOK, Stored
  <2>1. PICK n : n = [req[r] EXCEPT !.file = object.file]
    OBVIOUS
  <2>2. /\ n \in Inspection /\ n.by = req[r].by /\ n.fp = req[r].fp
        /\ n.guidance = req[r].guidance /\ n.file = object.file /\ n.late = req[r].late
        /\ n.head = req[r].head /\ n.same = req[r].same
    BY <1>0, <2>0, <2>1 DEF Inspection
  <2>3. Inspected(n) \in Inspection /\ Sound(Inspected(n))
    BY <1>0, <2>0, <2>2, InspectedFact DEF Sound, Asked, InTime, Undisturbed
  <2>4. Becomes(r, Inspected(n))
    BY <1>2, <2>1 DEF ScanGet
  <2>. QED BY <1>0, <2>3, <2>4, QuietFact
<1>. QED BY <1>1, <1>2

LEMMA SetFlagFact == ASSUME IInv, NEW r \in Requests, SetFlag(r) PROVE IInv'
<1>0. /\ req[r] # None /\ req[r].step = "verdict" /\ req[r].by = "scan" /\ ~req[r].allowed
      /\ req[r] \in Inspection /\ Sound(req[r]) /\ UNCHANGED intake /\ EndChanged(r)
      /\ object # None /\ mixed' = (mixed \/ ~req[r].same)
  BY HereFact DEF SetFlag, At, MayFlag
<1>1. /\ object \in Stored /\ object.file \in Files /\ req[r].head \in Stored
      /\ req[r].head.meta \in Files
  BY <1>0 DEF IInv, TypeOK, Sound, Undisturbed, Inspection, Stored
<1>2. object' = [file |-> object.file, meta |-> req[r].head.meta, flagged |-> TRUE]
  BY DEF SetFlag, Flagged
<1>3. object' \in Stored /\ object'.file = object.file /\ object'.meta = req[r].head.meta
  BY <1>1, <1>2 DEF Stored
<1>4. mixed' \in BOOLEAN
  <2>1. PICK b \in BOOLEAN : b = (mixed \/ ~req[r].same)
    OBVIOUS
  <2>. QED BY <1>0, <2>1
<1>5. ~mixed' => /\ ~mixed /\ object = req[r].head /\ req[r].file = object.file
                 /\ BlockedBySome(object.file)
  BY <1>0 DEF Sound, Undisturbed, Deserved
<1>6. published' = published
  BY <1>0 DEF intake
<1>7. StoredWasAllowed'
  BY <1>0, <1>3, <1>6 DEF IInv, StoreInv, StoredWasAllowed, Passes
<1>8. FlagDeserved'
  BY <1>3, <1>5, <1>6 DEF FlagDeserved, BlockedBySome
<1>9. MetadataKept'
  BY <1>0, <1>3, <1>5 DEF IInv, StoreInv, MetadataKept
<1>10. req' \in [Requests -> Inspection \cup {None}] /\ AllSound'
  BY <1>0, EndChangedFact
<1>. QED BY <1>0, <1>3, <1>4, <1>7, <1>8, <1>9, <1>10, ChangedFact DEF StoreInv

-----------------------------------------------------------------------------
(* The rest.                                                               *)

LEMMA RestartFact == ASSUME IInv, Restart PROVE IInv'
<1>0. /\ UNCHANGED <<clock, prompt, verdicts, published, swapped, object, mixed>>
      /\ clock \in Time /\ clock \in Nat /\ prompt \in Prompts /\ prompt \in published
  BY IntakeAssumption DEF Restart, store, IInv, TypeOK, IntakeTypeOK, SourceSound, Time
<1>1. \A x \in Requests : req'[x] = None \/ req'[x] = req[x]
  BY DEF Restart
<1>2. req' \in [Requests -> Inspection \cup {None}]
  <2>1. req' = [x \in Requests |-> req'[x]]
    BY DEF Restart
  <2>. QED BY <1>1, <2>1 DEF IInv, TypeOK, IntakeTypeOK
<1>3. AllSound'
  <2>. SUFFICES ASSUME NEW x \in Requests, req'[x] # None PROVE Sound(req[x])'
    BY DEF AllSound
  <2>1. PICK q \in Inspection : q = req[x] /\ Sound(q) /\ q = req'[x]
    BY <1>1, HereFact
  <2>2. Sound(q)'
    BY <1>0, <2>1, KeepsFact
  <2>. QED BY <2>1, <2>2
<1>4. source' = [value |-> prompt, readAt |-> clock, expires |-> clock + TTL, kept |-> FALSE]
  BY DEF Restart, Read
<1>5. clock + TTL \in Nat /\ clock + TTL <= clock + TTL + Latency
  BY <1>0, IntakeAssumption
<1>6. source' \in Source
  BY <1>0, <1>4, <1>5 DEF Source
<1>7. TypeOK'
  BY <1>0, <1>2, <1>6 DEF IInv, TypeOK, IntakeTypeOK
<1>8. SourceSound'
  BY <1>0, <1>4, <1>5 DEF IInv, SourceSound
<1>9. VerdictsPass' /\ CacheSoundUnlessSwapped'
  BY <1>0 DEF IInv, VerdictsPass, Passes, CacheSoundUnlessSwapped, CacheSound
<1>10. StoreInv'
  BY <1>0 DEF IInv, StoreInv, StoredWasAllowed, FlagDeserved, MetadataKept, Passes
<1>. QED BY <1>3, <1>7, <1>8, <1>9, <1>10 DEF IInv

LEMMA TickFact == ASSUME IInv, Tick, UNCHANGED store PROVE IInv'
<1>0. /\ UNCHANGED <<prompt, source, verdicts, published, swapped, object, mixed>>
      /\ UNCHANGED req
      /\ clock \in Time /\ clock' \in Time /\ clock' = clock + 1 /\ clock \in Nat
  BY IntakeAssumption DEF Tick, store, IInv, TypeOK, IntakeTypeOK, Time
<1>1. TypeOK'
  BY <1>0 DEF IInv, TypeOK, IntakeTypeOK
<1>2. AllSound'
  <2>. SUFFICES ASSUME NEW x \in Requests, req'[x] # None PROVE Sound(req[x])'
    BY DEF AllSound
  <2>1. PICK q \in Inspection : q = req[x] /\ Sound(q) /\ q = req'[x] /\ q # None
    BY <1>0, HereFact
  <2>2. q.readAt \in Nat
    BY <2>1, IntakeAssumption DEF Inspection, Time
  <2>3. q.step = "store" => clock - q.readAt < Latency
    BY <2>1 DEF Tick, At
  <2>4. InTime(q)'
    BY <1>0, <2>1, <2>2, <2>3, IntakeAssumption DEF Sound, InTime
  <2>5. Asked(q)' /\ Undisturbed(q)'
    BY <1>0, <2>1 DEF Sound, Asked, Undisturbed
  <2>6. Deserved(q)'
    BY <1>0, <2>1 DEF Sound, Deserved, Passes, BlockedBySome
  <2>. QED BY <2>1, <2>4, <2>5, <2>6 DEF Sound
<1>3. SourceSound'
  BY <1>0 DEF IInv, SourceSound
<1>4. VerdictsPass' /\ CacheSoundUnlessSwapped'
  BY <1>0 DEF IInv, VerdictsPass, Passes, CacheSoundUnlessSwapped, CacheSound
<1>5. StoreInv'
  BY <1>0 DEF IInv, StoreInv, StoredWasAllowed, FlagDeserved, MetadataKept, Passes
<1>. QED BY <1>1, <1>2, <1>3, <1>4, <1>5 DEF IInv

LEMMA PublishFact ==
    ASSUME IInv, NEW p \in Prompts, Publish(p), UNCHANGED store PROVE IInv'
<1>0. /\ UNCHANGED <<clock, source, verdicts, req, swapped, object, mixed>>
      /\ published' = published \cup {p} /\ prompt' = p
  BY DEF Publish, store
<1>1. TypeOK'
  BY <1>0 DEF IInv, TypeOK, IntakeTypeOK
<1>2. AllSound'
  <2>. SUFFICES ASSUME NEW x \in Requests, req'[x] # None PROVE Sound(req[x])'
    BY DEF AllSound
  <2>1. PICK q \in Inspection : q = req[x] /\ Sound(q) /\ q = req'[x]
    BY <1>0, HereFact
  <2>2. Sound(q)'
    BY <1>0, <2>1, KeepsFact
  <2>. QED BY <2>1, <2>2
<1>3. SourceSound'
  BY <1>0 DEF IInv, SourceSound
<1>4. VerdictsPass' /\ CacheSoundUnlessSwapped'
  BY <1>0 DEF IInv, VerdictsPass, Passes, CacheSoundUnlessSwapped, CacheSound
<1>5. StoreInv'
  BY <1>0 DEF IInv, StoreInv, StoredWasAllowed, FlagDeserved, MetadataKept, Passes
<1>. QED BY <1>1, <1>2, <1>3, <1>4, <1>5 DEF IInv

LEMMA InspectStep ==
    ASSUME IInv, NEW r \in Requests, Inspect(r), UNCHANGED store PROVE IInv'
<1>1. CASE Ask(r)           BY <1>1, AskFact
<1>2. CASE AskScanner(r)    BY <1>2, AskScannerFact
<1>3. CASE Fetch(r)         BY <1>3, FetchFact
<1>4. CASE StoreFetched(r)  BY <1>4, StoreFetchedFact
<1>5. CASE FetchFails(r)    BY <1>5, FetchFailsFact
<1>6. CASE Lookup(r)        BY <1>6, LookupFact
<1>7. CASE AskModel(r)      BY <1>7, AskModelFact
<1>8. CASE Remember(r)      BY <1>8, RememberFact
<1>. QED BY <1>1, <1>2, <1>3, <1>4, <1>5, <1>6, <1>7, <1>8 DEF Inspect

LEMMA GateStep == ASSUME IInv, NEW r \in Requests, Gate(r) PROVE IInv'
<1>1. CASE \E f \in Files : StartUpload(r, f)  BY <1>1, StartUploadFact
<1>2. CASE Admit(r)                            BY <1>2, AdmitFact
<1>3. CASE Block(r)                            BY <1>3, EndsFact DEF Block
<1>4. CASE UploadUninspected(r)                BY <1>4, UploadUninspectedFact
<1>. QED BY <1>1, <1>2, <1>3, <1>4 DEF Gate

LEMMA ScanStep == ASSUME IInv, NEW r \in Requests, Scan(r) PROVE IInv'
<1>1. CASE ScanHead(r)    BY <1>1, ScanHeadFact
<1>2. CASE ScanGet(r)     BY <1>2, ScanGetFact
<1>3. CASE ScanPasses(r)  BY <1>3, EndsFact DEF ScanPasses
<1>4. CASE SetFlag(r)     BY <1>4, SetFlagFact
<1>. QED BY <1>1, <1>2, <1>3, <1>4 DEF Scan

(* IInv is inductive.                                                      *)
LEMMA NextInv == IInv /\ [Next]_vars => IInv'
<1>. SUFFICES ASSUME IInv, [Next]_vars PROVE IInv'
  OBVIOUS
<1>1. CASE \E r \in Requests : Gate(r) \/ Scan(r) \/ Abandon(r)
  <2>1. PICK r \in Requests : Gate(r) \/ Scan(r) \/ Abandon(r)
    BY <1>1
  <2>2. CASE Abandon(r)
    BY <2>2, EndsFact DEF Abandon
  <2>. QED BY <2>1, <2>2, GateStep, ScanStep
<1>2. CASE \E r \in Requests : Inspect(r) /\ UNCHANGED store
  BY <1>2, InspectStep
<1>3. CASE Tick /\ UNCHANGED store
  BY <1>3, TickFact
<1>4. CASE \E p \in Prompts : Publish(p) /\ UNCHANGED store
  BY <1>4, PublishFact
<1>5. CASE Delete
  BY <1>5, DeleteFact
<1>6. CASE Restart
  BY <1>6, RestartFact
<1>7. CASE UNCHANGED vars
  BY <1>7 DEF vars, intake, store, IInv, TypeOK, IntakeTypeOK, AllSound, Sound, Asked, InTime,
     Deserved, Undisturbed, BlockedBySome, SourceSound, VerdictsPass, Passes,
     CacheSoundUnlessSwapped, CacheSound, StoreInv, StoredWasAllowed, FlagDeserved, MetadataKept
<1>. QED BY <1>1, <1>2, <1>3, <1>4, <1>5, <1>6, <1>7 DEF Next

-----------------------------------------------------------------------------
(* Theorems.                                                               *)

(* Inspections, cached guidance, verdicts and the stored file keep their    *)
(* types and the facts above in every behaviour.                            *)
THEOREM Invariance == Spec => []IInv
BY InitInv, NextInv, PTL DEF Spec

(* What is stored was allowed by a published guidance, whatever call failed *)
(* on the way, unless the gate is set to fail open (gateUpload).            *)
THEOREM UncheckedKeptOut == Spec => []StoredWasAllowed
<1>1. IInv => StoredWasAllowed
  BY DEF IInv, StoreInv
<1>. QED BY <1>1, Invariance, PTL

(* A remembered verdict is what its guidance says of that file, unless the  *)
(* guidance changed between an inspection's fingerprint and its request to  *)
(* the model (cachedInspector.Inspect).                                     *)
THEOREM CacheSafe == Spec => []CacheSoundUnlessSwapped
<1>1. IInv => CacheSoundUnlessSwapped
  BY DEF IInv
<1>. QED BY <1>1, Invariance, PTL

(* No inspection uses a guidance older than the cache's lifetime and one    *)
(* read, however its refreshes overlap (CachedSource.Fetch).                *)
THEOREM GuidanceTimely == Spec => []GuidanceInTime
<1>1. IInv => GuidanceInTime
  BY DEF IInv, AllSound, Sound, InTime, GuidanceInTime
<1>. QED BY <1>1, Invariance, PTL

(* A flag the scanner set, when nothing got between its reads and its copy, *)
(* is deserved and leaves the file the metadata it was uploaded with        *)
(* (inspectOne, setFlag).                                                   *)
THEOREM FlagsSafe == Spec => []FlagsTrue
<1>1. IInv => FlagsTrue
  BY DEF IInv, StoreInv, FlagsTrue
<1>. QED BY <1>1, Invariance, PTL

=============================================================================
