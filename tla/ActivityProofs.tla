---------------------------- MODULE ActivityProofs ----------------------------
(***************************************************************************)
(* Proofs about Activity for every number of requests, slugs, users, calls *)
(* and attempts.  The argument: a conditional put is applied only over the *)
(* manifest that was read, so each put merges one record into the current  *)
(* manifest, and what merging preserves is preserved by every interleaving. *)
(***************************************************************************)
EXTENDS Activity, TLAPS

\* One entry per artifact in a list.
OneEach(records) == \A p, o \in records : p.slug = o.slug => p = o

\* Whoever an upload's record names as the owner is known to have uploaded it.
UploadersKnown ==
    \A p \in Contents(stored)["uploads"] :
        Uploader(p) # None => <<p.slug, Uploader(p)>> \in known

\* A record on its way to the manifest names only a known owner.
RequestsKnown ==
    \A r \in Requests : req[r] # None =>
        LET p == req[r].record
        IN  /\ p.owner # None => <<p.slug, p.owner>> \in known
            /\ req[r].kind = "uploads" => p.owner = p.user

IInv ==
    /\ TypeOK
    /\ OnePerSlug
    /\ NothingLost
    /\ OwnersKnown
    /\ UploadersKnown
    /\ RequestsKnown

-----------------------------------------------------------------------------
(* Lists of records.                                                       *)

\* The newest of an artifact's entries is its one entry.
LEMMA NewestFact ==
    ASSUME NEW own \in SUBSET Record, own # {}, \A p, o \in own : p = o
    PROVE  Newest(own) \in own /\ own = {Newest(own)}
<1>1. PICK e \in own : TRUE
  OBVIOUS
<1>2. \A o \in own : o.at <= e.at
  <2>. SUFFICES ASSUME NEW o \in own PROVE o.at <= e.at
    OBVIOUS
  <2>1. o = e
    OBVIOUS
  <2>2. e.at \in Nat
    BY <1>1, ActivityAssumption DEF Record, Time
  <2>. QED BY <2>1, <2>2
<1>3. Newest(own) \in own
  BY <1>1, <1>2 DEF Newest
<1>. QED BY <1>3

\* What mergeActivity returns: the other artifacts' entries and one of this artifact's,
\* the record itself or the newer entry that was there.
LEMMA MergeFact ==
    ASSUME NEW records \in SUBSET Record, OneEach(records), NEW record \in Record
    PROVE  \E e \in Record :
              /\ e.slug = record.slug
              /\ mergeActivity(records, record)
                   = {p \in records : p.slug # record.slug} \cup {e}
              /\ e.at >= record.at
              /\ \A p \in records : p.slug = record.slug => e.at >= p.at
              /\ e = record \/ e \in records
<1>. DEFINE newer == {p \in records : p.slug = record.slug /\ p.at > record.at}
<1>0. \A p \in Record : p.at \in Nat
  BY ActivityAssumption DEF Record, Time
<1>1. CASE newer = {}
  <2>1. mergeActivity(records, record)
          = {p \in records : p.slug # record.slug} \cup {record}
    BY <1>1 DEF mergeActivity
  <2>2. \A p \in records : p.slug = record.slug => record.at >= p.at
    BY <1>0, <1>1
  <2>. QED BY <1>0, <2>1, <2>2
<1>2. CASE newer # {}
  <2>1. newer \in SUBSET Record /\ \A p, o \in newer : p = o
    BY DEF OneEach
  <2>2. Newest(newer) \in newer
    BY <1>2, <2>1, NewestFact
  <2>3. PICK e \in newer : e = Newest(newer)
    BY <2>2
  <2>4. mergeActivity(records, record)
          = {p \in records : p.slug # record.slug} \cup {e}
    BY <1>2, <2>3 DEF mergeActivity
  <2>5. e \in records /\ e.slug = record.slug /\ e.at > record.at
    OBVIOUS
  <2>6. \A p \in records : p.slug = record.slug => e.at >= p.at
    BY <2>5, <1>0 DEF OneEach
  <2>. QED BY <2>4, <2>5, <2>6, <1>0
<1>. QED BY <1>1, <1>2

\* Merging keeps one entry per artifact, and moves no artifact's entry backwards.
LEMMA MergeKeeps ==
    ASSUME NEW records \in SUBSET Record, OneEach(records), NEW record \in Record
    PROVE  LET m == mergeActivity(records, record)
           IN  /\ m \in SUBSET Record
               /\ OneEach(m)
               /\ \A p \in m : p \in records \/ p = record
               /\ \A p \in records : \E o \in m : o.slug = p.slug /\ o.at >= p.at
               /\ \E o \in m : o.slug = record.slug /\ o.at >= record.at
<1>1. PICK e \in Record :
          /\ e.slug = record.slug
          /\ mergeActivity(records, record)
               = {p \in records : p.slug # record.slug} \cup {e}
          /\ e.at >= record.at
          /\ \A p \in records : p.slug = record.slug => e.at >= p.at
          /\ e = record \/ e \in records
  BY MergeFact
<1>2. \A p \in Record : p.at \in Nat
  BY ActivityAssumption DEF Record, Time
<1>3. OneEach(mergeActivity(records, record))
  BY <1>1 DEF OneEach
<1>4. \A p \in records : \E o \in mergeActivity(records, record) :
          o.slug = p.slug /\ o.at >= p.at
  <2>. SUFFICES ASSUME NEW p \in records
                PROVE  \E o \in mergeActivity(records, record) :
                          o.slug = p.slug /\ o.at >= p.at
    OBVIOUS
  <2>1. CASE p.slug = record.slug
    BY <1>1, <2>1
  <2>2. CASE p.slug # record.slug
    BY <1>1, <1>2, <2>2
  <2>. QED BY <2>1, <2>2
<1>. QED BY <1>1, <1>3, <1>4

\* Whom a view is attributed to: the owner it came with, or a known uploader.
LEMMA AttributedFact ==
    ASSUME NEW uploads \in SUBSET Record, OneEach(uploads), NEW record \in Record
    PROVE  LET a == Attributed(uploads, record)
           IN  /\ a \in Record
               /\ a.slug = record.slug
               /\ a.at = record.at
               /\ \/ a.owner = record.owner
                  \/ \E p \in uploads : p.slug = record.slug /\ a.owner = Uploader(p)
<1>. DEFINE own == {p \in uploads : p.slug = record.slug}
<1>1. CASE record.owner # None \/ own = {}
  BY <1>1 DEF Attributed
<1>2. CASE ~(record.owner # None \/ own = {})
  <2>1. own \in SUBSET Record /\ \A p, o \in own : p = o
    BY DEF OneEach
  <2>2. Newest(own) \in own
    BY <1>2, <2>1, NewestFact
  <2>3. PICK p \in own : p = Newest(own)
    BY <2>2
  <2>4. Uploader(p) \in Email
    BY DEF Uploader, Record
  <2>5. Attributed(uploads, record) = [record EXCEPT !.owner = Uploader(p)]
    BY <1>2, <2>3 DEF Attributed
  <2>. QED BY <2>4, <2>5 DEF Record
<1>. QED BY <1>1, <1>2

\* The record that a call of a kind merges into its list.
Merged(m, kind, record) ==
    IF kind = "views" THEN Attributed(m["uploads"], record) ELSE record

\* A call changes only its own list, and changes it by a merge.
LEMMA UpdatedFact ==
    ASSUME NEW m \in Manifest, \A k \in Kinds : OneEach(m[k]),
           NEW kind \in Kinds, NEW record \in Record
    PROVE  LET n == Updated(m, kind, record)
               a == Merged(m, kind, record)
           IN  /\ n \in Manifest
               /\ n[kind] = mergeActivity(m[kind], a)
               /\ \A k \in Kinds \ {kind} : n[k] = m[k]
               /\ a \in Record
               /\ a.slug = record.slug
               /\ a.at = record.at
               /\ kind = "uploads" => a = record
               /\ \/ a.owner = record.owner
                  \/ \E p \in m["uploads"] :
                        p.slug = record.slug /\ a.owner = Uploader(p)
<1>. DEFINE a == Merged(m, kind, record)
<1>0. "uploads" \in Kinds /\ "views" \in Kinds
  BY DEF Kinds
<1>1. m["uploads"] \in SUBSET Record /\ m[kind] \in SUBSET Record
  BY <1>0 DEF Manifest
<1>2. /\ a \in Record
      /\ a.slug = record.slug
      /\ a.at = record.at
      /\ kind = "uploads" => a = record
      /\ \/ a.owner = record.owner
         \/ \E p \in m["uploads"] : p.slug = record.slug /\ a.owner = Uploader(p)
  <2>1. CASE kind = "views"
    <3>1. a = Attributed(m["uploads"], record)
      BY <2>1 DEF Merged
    <3>. QED BY <1>0, <1>1, <2>1, <3>1, AttributedFact
  <2>2. CASE kind # "views"
    BY <2>2 DEF Merged
  <2>. QED BY <2>1, <2>2
<1>3. Updated(m, kind, record) = [m EXCEPT ![kind] = mergeActivity(m[kind], a)]
  BY DEF Updated, Merged
<1>4. mergeActivity(m[kind], a) \in SUBSET Record
  BY <1>1, <1>2, MergeKeeps
<1>. HIDE DEF a
<1>5. /\ Updated(m, kind, record) \in Manifest
      /\ Updated(m, kind, record)[kind] = mergeActivity(m[kind], a)
      /\ \A k \in Kinds \ {kind} : Updated(m, kind, record)[k] = m[k]
  BY <1>3, <1>4 DEF Manifest
<1>. QED BY <1>2, <1>5 DEF a

\* What a request holds, field by field.
LEMMA RequestFields ==
    ASSUME NEW q \in Request
    PROVE  /\ q.kind \in Kinds
           /\ q.record \in Record
           /\ q.copy \in Manifest \cup {None}
           /\ q.attempt \in Nat
           /\ q.attempt < MaxAttempts
BY ActivityAssumption DEF Request

-----------------------------------------------------------------------------
(* The invariant, action by action.                                        *)

\* Requests go on or end, and keep the record they carry.
Carried ==
    /\ req' \in [Requests -> Request \cup {None}]
    /\ \A r \in Requests : req'[r] # None =>
          /\ req[r] # None
          /\ req'[r].record = req[r].record
          /\ req'[r].kind = req[r].kind

\* A request keeps its record when it has read the manifest and when it starts again.
LEMMA RequestMoves ==
    ASSUME NEW q \in Request
    PROVE  /\ \A m \in Manifest \cup {None} :
                 /\ HasRead(q, m) \in Request
                 /\ HasRead(q, m).record = q.record
                 /\ HasRead(q, m).kind = q.kind
           /\ q.attempt + 1 < MaxAttempts =>
                 /\ Again(q) \in Request
                 /\ Again(q).record = q.record
                 /\ Again(q).kind = q.kind
<1>1. ASSUME NEW m \in Manifest \cup {None}
      PROVE  /\ HasRead(q, m) \in Request
             /\ HasRead(q, m).record = q.record
             /\ HasRead(q, m).kind = q.kind
  <2>1. "put" \in {"read", "put"}
    OBVIOUS
  <2>. QED BY <2>1 DEF HasRead, Request
<1>2. ASSUME q.attempt + 1 < MaxAttempts
      PROVE  /\ Again(q) \in Request
             /\ Again(q).record = q.record
             /\ Again(q).kind = q.kind
  <2>1. "read" \in {"read", "put"} /\ None \in Manifest \cup {None}
    OBVIOUS
  <2>2. q.attempt + 1 \in 0..(MaxAttempts - 1)
    BY <1>2, RequestFields, ActivityAssumption
  <2>. QED BY <2>1, <2>2 DEF Again, Request
<1>. QED BY <1>1, <1>2

LEMMA EndCarries ==
    ASSUME TypeOK, NEW r \in Requests, End(r)
    PROVE  Carried
BY DEF TypeOK, End, Carried

LEMMA RetryCarries ==
    ASSUME TypeOK, NEW r \in Requests, req[r] # None, Retry(r)
    PROVE  Carried
<1>1. req[r] \in Request
  BY DEF TypeOK
<1>2. CASE req[r].attempt + 1 < MaxAttempts
  <2>1. PICK q : q = Again(req[r])
    OBVIOUS
  <2>2. q \in Request /\ q.record = req[r].record /\ q.kind = req[r].kind
    BY <1>1, <1>2, <2>1, RequestMoves
  <2>3. req' = [req EXCEPT ![r] = q]
    BY <1>2, <2>1 DEF Retry
  <2>. QED BY <2>2, <2>3 DEF TypeOK, Carried
<1>3. CASE ~(req[r].attempt + 1 < MaxAttempts)
  BY <1>3, EndCarries DEF Retry
<1>. QED BY <1>2, <1>3

\* A step that leaves the manifest alone and carries the requests on keeps the invariant.
LEMMA CarriedKeeps ==
    ASSUME IInv, Carried, UNCHANGED <<stored, acked, known>>,
           clock' \in Time, calls' \in 0..MaxCalls
    PROVE  IInv'
<1>1. TypeOK'
  BY DEF IInv, TypeOK, Carried
<1>2. (OnePerSlug /\ NothingLost /\ OwnersKnown /\ UploadersKnown)'
  BY DEF IInv, OnePerSlug, NothingLost, OwnersKnown, UploadersKnown, Contents
<1>3. RequestsKnown'
  BY DEF IInv, RequestsKnown, Carried
<1>. QED BY <1>1, <1>2, <1>3 DEF IInv

\* What the manifest holds is a manifest with one entry per artifact, stored or not.
LEMMA ContentsFact ==
    ASSUME IInv
    PROVE  /\ Contents(stored) \in Manifest
           /\ \A k \in Kinds : OneEach(Contents(stored)[k])
<1>1. Empty \in Manifest
  BY DEF Empty, Manifest
<1>2. Contents(stored) \in Manifest
  BY <1>1 DEF IInv, TypeOK, Contents
<1>. QED BY <1>2 DEF IInv, OnePerSlug, OneEach

\* The invariant holds in every initial state, with or without an older manifest.
LEMMA InitInv == Init => IInv
<1>. SUFFICES ASSUME Init PROVE IInv
  OBVIOUS
<1>0. 0 \in Time /\ 0 \in 0..MaxCalls
  BY ActivityAssumption DEF Time
<1>1. CASE stored = None /\ known = {}
  <2>1. TypeOK
    BY <1>0, <1>1 DEF Init, TypeOK
  <2>2. Contents(stored) = Empty
    BY <1>1 DEF Contents
  <2>3. \A k \in Kinds : Contents(stored)[k] = {}
    BY <2>2 DEF Empty
  <2>. QED BY <2>1, <2>3 DEF Init, IInv, OnePerSlug, NothingLost, OwnersKnown,
                               UploadersKnown, RequestsKnown, Kinds
<1>2. ASSUME NEW s \in Slugs, NEW u \in Users,
             stored = Older(s, u), known = {<<s, u>>}
      PROVE  IInv
  <2>1. PICK p \in Record :
            p = [slug |-> s, user |-> u, owner |-> None, at |-> 0]
    BY <1>0 DEF Record, Email
  <2>2. Older(s, u) = [k \in Kinds |-> IF k = "uploads" THEN {p} ELSE {}]
    BY <2>1 DEF Older
  <2>3. Older(s, u) \in Manifest
    BY <2>2 DEF Manifest
  <2>4. TypeOK
    BY <1>0, <1>2, <2>3 DEF Init, TypeOK
  <2>5. Contents(stored) = Older(s, u)
    BY <1>2, <2>3, RequestAssumption DEF Contents
  <2>6. /\ Contents(stored)["uploads"] = {p}
        /\ Contents(stored)["views"] = {}
        /\ \A k \in Kinds : Contents(stored)[k] \in {{p}, {}}
    BY <2>2, <2>5 DEF Kinds
  <2>7. OnePerSlug /\ OwnersKnown
    BY <2>6 DEF OnePerSlug, OwnersKnown
  <2>8. UploadersKnown
    BY <1>2, <2>1, <2>6 DEF UploadersKnown, Uploader
  <2>9. NothingLost /\ RequestsKnown
    BY DEF Init, NothingLost, RequestsKnown
  <2>. QED BY <2>4, <2>7, <2>8, <2>9 DEF IInv
<1>. QED BY <1>1, <1>2 DEF Init

\* A new call names its owner before it carries the name anywhere.
LEMMA StartInv ==
    ASSUME IInv, NEW r \in Requests, NEW kind \in Kinds, NEW s \in Slugs,
           NEW user \in Email, NEW owner \in Email,
           kind = "uploads" => owner = user,
           StartRecord(r, kind, s, user, owner)
    PROVE  IInv'
<1>1. PICK p \in Record :
          p = [slug |-> s, user |-> user, owner |-> owner, at |-> clock]
  BY DEF IInv, TypeOK, Record
<1>2. PICK q : q = [step |-> "read", kind |-> kind, record |-> p,
                    copy |-> None, attempt |-> 0]
  OBVIOUS
<1>3. q \in Request
  <2>1. 0 \in 0..(MaxAttempts - 1) /\ "read" \in {"read", "put"}
    BY ActivityAssumption
  <2>. QED BY <1>1, <1>2, <2>1 DEF Request
<1>4. /\ req' = [req EXCEPT ![r] = q]
      /\ known' = known \cup {<<s, o>> : o \in {owner} \ {None}}
      /\ calls < MaxCalls
      /\ calls' = calls + 1
      /\ UNCHANGED <<clock, stored, acked>>
  BY <1>1, <1>2 DEF StartRecord
<1>5. known \subseteq known' /\ (owner # None => <<s, owner>> \in known')
  BY <1>4
<1>6. TypeOK'
  <2>1. known' \in SUBSET (Slugs \X Users)
    BY <1>4 DEF IInv, TypeOK, Email
  <2>2. calls' \in 0..MaxCalls
    BY <1>4, ActivityAssumption DEF IInv, TypeOK
  <2>3. req' \in [Requests -> Request \cup {None}]
    BY <1>3, <1>4 DEF IInv, TypeOK
  <2>. QED BY <1>4, <2>1, <2>2, <2>3 DEF IInv, TypeOK
<1>7. (OnePerSlug /\ NothingLost)'
  BY <1>4 DEF IInv, OnePerSlug, NothingLost, Contents
<1>8. (OwnersKnown /\ UploadersKnown)'
  BY <1>4, <1>5 DEF IInv, OwnersKnown, UploadersKnown, Contents
<1>9. RequestsKnown'
  <2>. SUFFICES ASSUME NEW x \in Requests, req'[x] # None
                PROVE  /\ req'[x].record.owner # None =>
                            <<req'[x].record.slug, req'[x].record.owner>> \in known'
                       /\ req'[x].kind = "uploads" =>
                            req'[x].record.owner = req'[x].record.user
    BY DEF RequestsKnown
  <2>1. CASE x = r
    <3>1. req'[x] = q
      BY <1>4, <2>1 DEF IInv, TypeOK
    <3>. QED BY <1>1, <1>2, <1>5, <3>1
  <2>2. CASE x # r
    <3>1. req'[x] = req[x]
      BY <1>4, <2>2 DEF IInv, TypeOK
    <3>. QED BY <1>5, <3>1 DEF IInv, RequestsKnown
  <2>. QED BY <2>1, <2>2
<1>. QED BY <1>6, <1>7, <1>8, <1>9 DEF IInv

\* An applied put merges the call's record into the manifest as it is now.
LEMMA PutStores ==
    ASSUME IInv, NEW r \in Requests, Put(r)
    PROVE  /\ req[r] \in Request
           /\ stored' \in Manifest
           /\ Contents(stored)' = Updated(Contents(stored), req[r].kind, req[r].record)
<1>1. req[r] \in Request
  BY DEF IInv, TypeOK, Put, At
<1>2. stored' = Updated(Contents(stored), req[r].kind, req[r].record)
  BY DEF Put, Matches
<1>3. Updated(Contents(stored), req[r].kind, req[r].record) \in Manifest
  BY <1>1, ContentsFact, UpdatedFact, RequestFields
<1>. QED BY <1>1, <1>2, <1>3, RequestAssumption DEF Contents

\* An applied put keeps the invariant, whatever the call hears of it.
LEMMA PutInv ==
    ASSUME IInv, NEW r \in Requests, Put(r)
    PROVE  IInv'
<1>1. PICK q \in Request : q = req[r]
  BY PutStores
<1>2. PICK m \in Manifest : m = Contents(stored)
  BY ContentsFact
<1>3. PICK n \in Manifest : n = Contents(stored)'
  BY PutStores, UpdatedFact, ContentsFact, RequestFields
<1>4. PICK a : a = Merged(m, q.kind, q.record)
  OBVIOUS
<1>5. \A k \in Kinds : m[k] \in SUBSET Record /\ OneEach(m[k])
  BY <1>2, ContentsFact DEF Manifest
<1>6. q.kind \in Kinds /\ q.record \in Record
  BY RequestFields
<1>7. /\ n[q.kind] = mergeActivity(m[q.kind], a)
      /\ \A k \in Kinds \ {q.kind} : n[k] = m[k]
      /\ a \in Record
      /\ a.slug = q.record.slug
      /\ a.at = q.record.at
      /\ q.kind = "uploads" => a = q.record
      /\ \/ a.owner = q.record.owner
         \/ \E p \in m["uploads"] : p.slug = q.record.slug /\ a.owner = Uploader(p)
  BY <1>1, <1>2, <1>3, <1>4, <1>5, <1>6, PutStores, UpdatedFact
<1>8. /\ OneEach(n[q.kind])
      /\ \A p \in n[q.kind] : p \in m[q.kind] \/ p = a
      /\ \A p \in m[q.kind] : \E o \in n[q.kind] : o.slug = p.slug /\ o.at >= p.at
      /\ \E o \in n[q.kind] : o.slug = a.slug /\ o.at >= a.at
  BY <1>5, <1>6, <1>7, MergeKeeps
<1>9. /\ req[r] # None
      /\ acked' \in {acked, acked \cup {[kind |-> q.kind, record |-> q.record]}}
      /\ End(r) \/ Retry(r)
      /\ UNCHANGED <<clock, calls, known>>
  BY <1>1 DEF Put, At
<1>10. Carried
  BY <1>9, EndCarries, RetryCarries DEF IInv
<1>11. \A p \in Record : p.at \in Nat
  BY ActivityAssumption DEF Record, Time
<1>12. TypeOK'
  <2>1. acked' \in SUBSET [kind: Kinds, record: Record]
    BY <1>6, <1>9 DEF IInv, TypeOK
  <2>2. stored' \in Manifest
    BY PutStores
  <2>. QED BY <1>9, <1>10, <2>1, <2>2 DEF IInv, TypeOK, Carried
<1>13. OnePerSlug'
  <2>. SUFFICES ASSUME NEW k \in Kinds PROVE OneEach(n[k])
    BY <1>3 DEF OnePerSlug, OneEach
  <2>. QED BY <1>5, <1>7, <1>8
<1>14. NothingLost'
  <2>. SUFFICES ASSUME NEW c \in acked'
                PROVE  \E o \in n[c.kind] :
                          o.slug = c.record.slug /\ o.at >= c.record.at
    BY <1>3 DEF NothingLost
  <2>1. CASE c \in acked
    <3>1. PICK p \in m[c.kind] : p.slug = c.record.slug /\ p.at >= c.record.at
      BY <1>2, <2>1 DEF IInv, NothingLost
    <3>2. c.kind \in Kinds /\ c.record \in Record
      BY <2>1 DEF IInv, TypeOK
    <3>3. CASE c.kind # q.kind
      BY <1>7, <3>1, <3>2, <3>3
    <3>4. CASE c.kind = q.kind
      <4>1. PICK o \in n[c.kind] : o.slug = p.slug /\ o.at >= p.at
        BY <1>8, <3>1, <3>4
      <4>2. o \in Record /\ p \in Record
        BY <1>3, <1>5, <3>1, <3>2, <4>1 DEF Manifest
      <4>. QED BY <1>11, <3>1, <3>2, <4>1, <4>2
    <3>. QED BY <3>3, <3>4
  <2>2. CASE c = [kind |-> q.kind, record |-> q.record]
    BY <1>7, <1>8, <2>2
  <2>. QED BY <1>9, <2>1, <2>2
<1>15. a.owner # None => <<a.slug, a.owner>> \in known
  <2>1. CASE a.owner = q.record.owner
    BY <1>1, <1>7, <1>9, <2>1 DEF IInv, RequestsKnown
  <2>2. ASSUME NEW p \in m["uploads"], p.slug = q.record.slug, a.owner = Uploader(p)
        PROVE  a.owner # None => <<a.slug, a.owner>> \in known
    BY <1>2, <1>7, <2>2 DEF IInv, UploadersKnown
  <2>. QED BY <1>7, <2>1, <2>2
<1>16. OwnersKnown'
  <2>1. \A p \in n["views"] : p \in m["views"] \/ p = a
    BY <1>7, <1>8 DEF Kinds
  <2>2. \A p \in m["views"] : p.owner # None => <<p.slug, p.owner>> \in known
    BY <1>2 DEF IInv, OwnersKnown
  <2>. QED BY <1>3, <1>9, <1>15, <2>1, <2>2 DEF OwnersKnown
<1>17. UploadersKnown'
  <2>1. \A p \in n["uploads"] :
            p \in m["uploads"] \/ (p = a /\ q.kind = "uploads")
    BY <1>7, <1>8 DEF Kinds
  <2>2. \A p \in m["uploads"] :
            Uploader(p) # None => <<p.slug, Uploader(p)>> \in known
    BY <1>2 DEF IInv, UploadersKnown
  <2>3. q.kind = "uploads" => Uploader(a) = a.owner
    BY <1>1, <1>7, <1>9 DEF IInv, RequestsKnown, Uploader
  <2>. QED BY <1>3, <1>9, <1>15, <2>1, <2>2, <2>3 DEF UploadersKnown
<1>18. RequestsKnown'
  BY <1>9, <1>10 DEF IInv, RequestsKnown, Carried
<1>. QED BY <1>12, <1>13, <1>14, <1>16, <1>17, <1>18 DEF IInv

\* Every step keeps the invariant.
LEMMA NextInv == IInv /\ [Next]_vars => IInv'
<1>. SUFFICES ASSUME IInv, [Next]_vars PROVE IInv'
  OBVIOUS
<1>0. TypeOK
  BY DEF IInv
<1>1. ASSUME NEW r \in Requests, NEW s \in Slugs, NEW u \in Email, RecordUpload(r, s, u)
      PROVE  IInv'
  BY <1>1, StartInv DEF RecordUpload, Kinds
<1>2. ASSUME NEW r \in Requests, NEW s \in Slugs, NEW u \in Email, NEW o \in Email,
             RecordView(r, s, u, o)
      PROVE  IInv'
  BY <1>2, StartInv DEF RecordView, Kinds
<1>3. ASSUME NEW r \in Requests, readManifest(r)
      PROVE  IInv'
  <2>1. PICK q : q = HasRead(req[r], stored)
    OBVIOUS
  <2>2. q \in Request /\ q.record = req[r].record /\ q.kind = req[r].kind
    BY <1>0, <1>3, <2>1, RequestMoves DEF readManifest, At, TypeOK
  <2>3. req' = [req EXCEPT ![r] = q] /\ req[r] # None
    BY <1>3, <2>1 DEF readManifest, At
  <2>4. Carried
    BY <1>0, <2>2, <2>3 DEF TypeOK, Carried
  <2>. QED BY <1>0, <1>3, <2>4, CarriedKeeps DEF readManifest, TypeOK
<1>4. ASSUME NEW r \in Requests, Put(r)
      PROVE  IInv'
  BY <1>4, PutInv
<1>5. ASSUME NEW r \in Requests, Conflict(r)
      PROVE  IInv'
  BY <1>0, <1>5, RetryCarries, CarriedKeeps DEF Conflict, At, TypeOK
<1>6. ASSUME NEW r \in Requests, Fails(r)
      PROVE  IInv'
  BY <1>0, <1>6, EndCarries, CarriedKeeps DEF Fails, TypeOK
<1>7. CASE Restart
  <2>1. Carried
    BY <1>7 DEF Restart, Carried
  <2>. QED BY <1>0, <1>7, <2>1, CarriedKeeps DEF Restart, TypeOK
<1>8. CASE Tick
  <2>1. Carried
    BY <1>0, <1>8 DEF Tick, TypeOK, Carried
  <2>2. clock' \in Time
    BY <1>0, <1>8, ActivityAssumption DEF Tick, TypeOK, Time
  <2>. QED BY <1>0, <1>8, <2>1, <2>2, CarriedKeeps DEF Tick, TypeOK
<1>9. CASE UNCHANGED vars
  <2>1. Carried
    BY <1>0, <1>9 DEF vars, TypeOK, Carried
  <2>. QED BY <1>0, <1>9, <2>1, CarriedKeeps DEF vars, TypeOK
<1>. QED BY <1>1, <1>2, <1>3, <1>4, <1>5, <1>6, <1>7, <1>8, <1>9 DEF Next, Step

-----------------------------------------------------------------------------
(* Theorems.                                                               *)

\* The inductive invariant holds in every behaviour of updateManifest's requests.
THEOREM Invariance == Spec => []IInv
<1>. QED BY InitInv, NextInv, PTL DEF Spec

\* Type correctness of the manifest and of the requests that update it.
THEOREM TypeCorrect == Spec => []TypeOK
<1>1. IInv => TypeOK
  BY DEF IInv
<1>. QED BY <1>1, Invariance, PTL

\* mergeActivity and the conditional put leave one entry per artifact.
THEOREM OneEntry == Spec => []OnePerSlug
<1>1. IInv => OnePerSlug
  BY DEF IInv
<1>. QED BY <1>1, Invariance, PTL

\* No put of updateManifest undoes an upload or a view that was reported recorded.
THEOREM NoLostUpdate == Spec => []NothingLost
<1>1. IInv => NothingLost
  BY DEF IInv
<1>. QED BY <1>1, Invariance, PTL

\* The owner that a view shows is never only its viewer (UserManifest.RecordView).
THEOREM OwnersTrue == Spec => []OwnersKnown
<1>1. IInv => OwnersKnown
  BY DEF IInv
<1>. QED BY <1>1, Invariance, PTL

-----------------------------------------------------------------------------
(* The manifest implements the abstract log.                               *)

\* An artifact's latest instant is that of its one entry.
LEMMA LatestFact ==
    ASSUME NEW m \in Manifest, NEW k \in Kinds, NEW s \in Slugs, OneEach(m[k])
    PROVE  /\ \A p \in m[k] : p.slug = s => Latest(m, k, s) = p.at
           /\ (\A p \in m[k] : p.slug # s) => Latest(m, k, s) = None
           /\ Latest(m, k, s) \in Time \cup {None}
<1>. DEFINE own == {p \in m[k] : p.slug = s}
<1>1. own \in SUBSET Record /\ \A p, o \in own : p = o
  BY DEF OneEach, Manifest
<1>2. CASE own = {}
  BY <1>2 DEF Latest
<1>3. CASE own # {}
  <2>1. Newest(own) \in own /\ own = {Newest(own)}
    BY <1>1, <1>3, NewestFact
  <2>2. PICK e \in own : e = Newest(own)
    BY <2>1
  <2>3. Latest(m, k, s) = e.at
    BY <1>3, <2>2 DEF Latest
  <2>4. e.at \in Time
    BY <1>1 DEF Record
  <2>. QED BY <2>1, <2>2, <2>3, <2>4
<1>. QED BY <1>2, <1>3

\* The log starts empty, or with an older upload.
LEMMA LogInit == Init => Log!Init
<1>. SUFFICES ASSUME Init PROVE Log!Init
  OBVIOUS
<1>1. IInv
  BY InitInv
<1>2. PICK m \in Manifest : m = Contents(stored)
  BY <1>1, ContentsFact
<1>3. \A k \in Kinds : OneEach(m[k])
  BY <1>1, <1>2, ContentsFact
<1>4. \A k \in Kinds : \A p \in m[k] : p.at = 0
  <2>1. CASE stored = None
    BY <1>2, <2>1 DEF Contents, Empty
  <2>2. ASSUME NEW s \in Slugs, NEW u \in Users, stored = Older(s, u)
        PROVE  \A k \in Kinds : \A p \in m[k] : p.at = 0
    <3>1. m = Older(s, u) \/ m = Empty
      BY <1>2, <2>2 DEF Contents
    <3>. QED BY <3>1 DEF Older, Empty
  <2>. QED BY <2>1, <2>2 DEF Init
<1>5. \A k \in Kinds, s \in Slugs : Latest(m, k, s) \in {None, 0}
  BY <1>3, <1>4, LatestFact
<1>. QED BY <1>2, <1>5 DEF latest, Log!Init, Kinds, Log!Kinds

\* An applied put moves one artifact's latest instant forwards, or nothing.
LEMMA PutLogs ==
    ASSUME IInv, IInv', NEW r \in Requests, Put(r)
    PROVE  Log!Next \/ latest' = latest
<1>1. PICK q \in Request : q = req[r]
  BY PutStores
<1>2. PICK m \in Manifest : m = Contents(stored)
  BY ContentsFact
<1>3. PICK n \in Manifest : n = Contents(stored)'
  BY PutStores, UpdatedFact, ContentsFact, RequestFields
<1>4. PICK a : a = Merged(m, q.kind, q.record)
  OBVIOUS
<1>5. \A k \in Kinds : /\ m[k] \in SUBSET Record
                       /\ OneEach(m[k])
                       /\ n[k] \in SUBSET Record
                       /\ OneEach(n[k])
  BY <1>2, <1>3, ContentsFact DEF Manifest, IInv, OnePerSlug, OneEach
<1>6. PICK kind \in Kinds : kind = q.kind
  BY RequestFields
<1>7. /\ n[kind] = mergeActivity(m[kind], a)
      /\ \A k \in Kinds \ {kind} : n[k] = m[k]
      /\ a \in Record
  BY <1>1, <1>2, <1>3, <1>4, <1>5, <1>6, RequestFields, PutStores, UpdatedFact
<1>8. PICK slug \in Slugs : slug = a.slug
  BY <1>7 DEF Record
<1>9. PICK e \in Record :
          /\ e.slug = slug
          /\ n[kind] = {p \in m[kind] : p.slug # slug} \cup {e}
          /\ \A p \in m[kind] : p.slug = slug => e.at >= p.at
  <2>1. m[kind] \in SUBSET Record /\ OneEach(m[kind]) /\ a \in Record
    BY <1>5, <1>7
  <2>2. PICK e \in Record :
            /\ e.slug = a.slug
            /\ mergeActivity(m[kind], a) = {p \in m[kind] : p.slug # a.slug} \cup {e}
            /\ \A p \in m[kind] : p.slug = a.slug => e.at >= p.at
    BY <2>1, MergeFact
  <2>. QED BY <1>7, <1>8, <2>2
<1>10. \A k \in Kinds, s \in Slugs :
          k # kind \/ s # slug => Latest(n, k, s) = Latest(m, k, s)
  <2>. SUFFICES ASSUME NEW k \in Kinds, NEW s \in Slugs, k # kind \/ s # slug
                PROVE  Latest(n, k, s) = Latest(m, k, s)
    OBVIOUS
  <2>1. {p \in n[k] : p.slug = s} = {p \in m[k] : p.slug = s}
    BY <1>7, <1>9
  <2>. QED BY <2>1 DEF Latest
<1>11. Latest(n, kind, slug) = e.at
  BY <1>5, <1>9, LatestFact
<1>12. e.at \in Time /\ e.at \in Nat
  BY ActivityAssumption DEF Record, Time
<1>13. \/ Latest(m, kind, slug) = None
       \/ Latest(m, kind, slug) \in Time /\ Latest(m, kind, slug) <= e.at
  <2>1. CASE \A p \in m[kind] : p.slug # slug
    BY <1>5, <2>1, LatestFact
  <2>2. ASSUME NEW p \in m[kind], p.slug = slug
        PROVE  Latest(m, kind, slug) \in Time /\ Latest(m, kind, slug) <= e.at
    <3>1. Latest(m, kind, slug) = p.at
      BY <1>5, <2>2, LatestFact
    <3>2. p.at \in Time /\ p.at <= e.at
      BY <1>5, <1>9, <1>12, <2>2, ActivityAssumption DEF Record, Time
    <3>. QED BY <3>1, <3>2
  <2>. QED BY <2>1, <2>2
<1>14. /\ latest = [k \in Kinds |-> [s \in Slugs |-> Latest(m, k, s)]]
       /\ latest' = [k \in Kinds |-> [s \in Slugs |-> Latest(n, k, s)]]
  BY <1>2, <1>3 DEF latest
<1>15. CASE Latest(m, kind, slug) = e.at
  <2>1. \A k \in Kinds, s \in Slugs : Latest(n, k, s) = Latest(m, k, s)
    BY <1>10, <1>11, <1>15
  <2>. QED BY <1>14, <2>1
<1>16. CASE Latest(m, kind, slug) # e.at
  <2>1. latest' = [latest EXCEPT ![kind][slug] = e.at]
    <3>1. \A k \in Kinds \ {kind} : latest'[k] = latest[k]
      BY <1>10, <1>14
    <3>2. latest'[kind] = [latest[kind] EXCEPT ![slug] = e.at]
      BY <1>10, <1>11, <1>14
    <3>. QED BY <1>14, <3>1, <3>2
  <2>2. latest[kind][slug] = Latest(m, kind, slug)
    BY <1>14
  <2>3. latest[kind][slug] = None \/ latest[kind][slug] < e.at
    BY <1>12, <1>13, <1>16, <2>2, ActivityAssumption DEF Time
  <2>4. Log!Happened(kind, slug, e.at)
    BY <2>1, <2>3 DEF Log!Happened
  <2>. QED BY <1>12, <2>4 DEF Log!Next, Log!Kinds, Log!Time, Kinds, Time
<1>. QED BY <1>15, <1>16

\* updateManifest implements the abstract log: read, merge and put are one atomic step.
THEOREM Refinement == Spec => ImplementsLog
<1>1. IInv /\ IInv' /\ [Next]_vars => [Log!Next]_latest
  <2>. SUFFICES ASSUME IInv, IInv', [Next]_vars PROVE Log!Next \/ latest' = latest
    OBVIOUS
  <2>1. ASSUME NEW r \in Requests, Put(r)
        PROVE  Log!Next \/ latest' = latest
    BY <2>1, PutLogs
  <2>2. CASE UNCHANGED stored
    BY <2>2 DEF latest, Contents
  <2>3. ASSUME NEW r \in Requests, Step(r), ~Put(r)
        PROVE  UNCHANGED stored
    BY <2>3 DEF Step, RecordUpload, RecordView, StartRecord, readManifest, Conflict, Fails
  <2>4. Restart \/ Tick \/ UNCHANGED vars => UNCHANGED stored
    BY DEF Restart, Tick, vars
  <2>. QED BY <2>1, <2>2, <2>3, <2>4 DEF Next
<1>. QED BY <1>1, Invariance, LogInit, PTL DEF Spec, ImplementsLog, Log!Spec

\* Whatever copies are merged and put back, a stored manifest is true.
THEOREM ManifestSafe == Spec => []ManifestTrue
<1>1. TypeOK /\ OnePerSlug /\ OwnersKnown => ManifestTrue
  BY DEF ManifestTrue
<1>. QED
  BY <1>1, TypeCorrect, OneEntry, OwnersTrue, PTL

=============================================================================
