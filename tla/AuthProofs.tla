----------------------------- MODULE AuthProofs -----------------------------
(***************************************************************************)
(* Proofs about Tokens, for every number of requests, users and tokens and *)
(* every length of time, and about Identity, for every set of users.  What *)
(* the runs check of the stored records is not inductive: it rests on what *)
(* each request in flight has read, and on no other request than a lookup  *)
(* naming a token whose record is not there yet.  What a request is        *)
(* answered rests on what the answer says of the credentials it was given. *)
(***************************************************************************)
EXTENDS Tokens, Identity, TLAPS

\* Two records of one token differ at most in when it was last used.
SameToken(a, b) ==
    /\ a.owner = b.owner
    /\ a.created = b.created
    /\ a.expires = b.expires

\* What the runs check of the stored state, with what makes it inductive.
StoreInv ==
    /\ RevokedStaysRevoked
    /\ UsableIndexed
    /\ UsedInLifetime
    /\ handed \subseteq drawn
    /\ revoked \subseteq drawn
    /\ \A t \in Tokens : record[t] # None => t \in drawn /\ record[t].created <= clock

SoundCreate(q) ==
    /\ q.step = "record" =>
          /\ q.token \in drawn \ (handed \cup revoked)
          /\ record[q.token] = None
          /\ q.copy \in Token
          /\ q.copy.created <= clock
          /\ q.copy.used = None
    /\ q.step = "index" =>
          /\ q.token \in drawn
          /\ q.copy \in Token
          /\ record[q.token] # None => record[q.token].owner = q.copy.owner

SoundVerify(q) ==
    /\ q.step \in {"get", "check", "reread", "touch", "accept"} => q.token \in drawn
    /\ q.step \in {"check", "reread", "touch", "accept"} => q.token \notin q.gone
    /\ q.step = "check" =>
          /\ q.copy \in Token
          /\ q.copy.created <= clock
          /\ record[q.token] # None => SameToken(record[q.token], q.copy)
    /\ q.step \in {"reread", "touch"} => q.now <= clock
    /\ q.step = "reread" /\ record[q.token] # None =>
          record[q.token].created <= q.now /\ q.now < record[q.token].expires
    /\ q.step = "touch" =>
          /\ q.copy \in Token
          /\ q.copy.created <= q.now
          /\ q.now < q.copy.expires

SoundRevoke(q) ==
    /\ q.step = "find" => q.token \in Tokens
    /\ q.step = "erase" => q.token \in drawn /\ q.copy \in Token
    /\ q.step = "unindex" => q.token \in revoked /\ q.copy \in Token

SoundList(q) ==
    /\ q.step \in {"markers", "records", "listed"} =>
          /\ q.token = None
          /\ q.actor \in Users
          /\ q.due \subseteq handed
          /\ \A t \in q.due : record[t] # None => record[t].owner = q.actor
          /\ q.result \cap q.gone = {}
    /\ q.step = "records" => {t \in q.due : record[t] # None} \subseteq q.result \cup q.queue
    /\ q.step = "listed" => {t \in q.due : record[t] # None} \subseteq q.result

Sound(q) ==
    /\ q.gone \subseteq revoked
    /\ SoundCreate(q)
    /\ SoundVerify(q)
    /\ SoundRevoke(q)
    /\ SoundList(q)

\* In requests f, only lookups by id name the token that request r is about to store.
Alone(f, r) ==
    f[r] # None /\ f[r].step = "record" =>
        \A s \in Requests \ {r} :
            f[s] # None /\ f[s].token = f[r].token => f[s].step = "find"

TokensInv ==
    /\ TokensTypeOK
    /\ StoreInv
    /\ \A r \in Requests : req[r] # None => Sound(req[r])
    /\ \A r \in Requests : Alone(req, r)

-----------------------------------------------------------------------------

\* The initial state satisfies the invariant: nothing is stored or in flight.
LEMMA TokensInitInv == TokensInit => TokensInv
<1> SUFFICES ASSUME TokensInit PROVE TokensInv
  OBVIOUS
<1>1. TokensTypeOK
  BY TokensAssumption, SMT DEF TokensInit, TokensTypeOK, Time
<1>2. StoreInv
  BY DEF TokensInit, StoreInv, RevokedStaysRevoked, UsableIndexed, Usable, UsedInLifetime
<1>3. \A r \in Requests : req[r] = None
  BY DEF TokensInit
<1> QED
  BY <1>1, <1>2, <1>3 DEF TokensInv, Alone

\* Request w can take slot r beside the others: nobody else is about to store the
\* token it works on, and if it is about to itself, the others only look it up.
Fits(r, w) ==
    w # None =>
        \A s \in Requests \ {r} : req[s] # None =>
            /\ w.step # "find" /\ req[s].step = "record" => req[s].token # w.token
            /\ w.step = "record" /\ req[s].token = w.token => req[s].step = "find"

\* A step of request r changes at most the record of token x, which no other request is
\* about to store: it goes, it is touched, or it is new and the others only look it up.
Touched(r, x) ==
    /\ \A s \in Requests \ {r} :
          req[s] # None /\ req[s].step = "record" => req[s].token # x
    /\ \A t \in Tokens \ {x} : record'[t] = record[t]
    /\ \/ record' = record
       \/ x \in Tokens /\ record'[x] = None
       \/ x \in Tokens /\ record[x] # None /\ SameToken(record'[x], record[x])
       \/ /\ x \in Tokens \ handed
          /\ \A s \in Requests \ {r} :
                req[s] # None /\ req[s].token = x => req[s].step = "find"
    /\ clock <= clock'
    /\ drawn \subseteq drawn'
    /\ handed \subseteq handed' /\ handed' \subseteq handed \cup {x}
    /\ revoked \subseteq revoked' /\ revoked' \subseteq revoked \cup {x}

\* Such a step leaves every other request sound.
LEMMA SlotStep ==
    ASSUME TokensInv, TokensTypeOK', StoreInv',
           NEW r \in Requests, NEW w \in Request \cup {None},
           req' = [req EXCEPT ![r] = w],
           w # None => Sound(w)',
           Fits(r, w),
           NEW x, Touched(r, x)
    PROVE  TokensInv'
<1> USE DEF Touched
<1>1. \A s \in Requests \ {r} : req'[s] = req[s]
  BY DEF TokensInv, TokensTypeOK
<1>2. req'[r] = w
  BY DEF TokensInv, TokensTypeOK
<1>3. ASSUME NEW s \in Requests \ {r}, req[s] # None
      PROVE  Sound(req[s])'
  <2> DEFINE q == req[s]
             Kept(t) == record'[t] # None =>
                          record[t] # None /\ SameToken(record'[t], record[t])
  <2>1. q \in Request /\ q' = q /\ Sound(q)
    BY <1>1, <1>3 DEF TokensInv, TokensTypeOK
  <2>2. q.token \in Tokens /\ q.step # "find" => Kept(q.token)
    BY <1>3 DEF SameToken
  <2>3. \A t \in Tokens \cap handed : Kept(t)
    BY DEF SameToken
  <2>4. q.step = "record" => q.token # x
    BY <1>3
  <2>5. drawn \subseteq Tokens /\ handed \subseteq Tokens
    BY DEF TokensInv, TokensTypeOK
  <2>6. clock \in Nat /\ clock' \in Nat /\ q.now \in Nat
    BY <2>1, TokensAssumption DEF TokensInv, TokensTypeOK, Time, Request
  <2> HIDE DEF q, Kept
  <2>7. SoundCreate(q)'
    <3>1. q.step = "record" => SoundCreate(q)'
      <4>1. \A c \in Token : c.created \in Nat
        BY TokensAssumption DEF Token, Time
      <4> QED
        BY <2>1, <2>4, <2>5, <2>6, <4>1 DEF Sound, SoundCreate
    <3>2. q.step = "index" => SoundCreate(q)'
      <4>1. ASSUME q.step = "index"
            PROVE  /\ q.token \in drawn /\ q.copy \in Token
                   /\ record[q.token] # None => record[q.token].owner = q.copy.owner
        BY <2>1, <4>1 DEF Sound, SoundCreate
      <4>2. q.step = "index" => Kept(q.token)
        BY <2>2, <2>5, <4>1
      <4>3. ASSUME q.step = "index", record'[q.token] # None
            PROVE  record'[q.token].owner = q.copy.owner
        BY <4>1, <4>2, <4>3 DEF Kept, SameToken
      <4> QED
        BY <2>1, <4>1, <4>3 DEF SoundCreate
    <3> QED
      BY <2>1, <3>1, <3>2 DEF SoundCreate
  <2>8. SoundVerify(q)'
    <3>1. \A c \in Token : c.created \in Nat
      BY TokensAssumption DEF Token, Time
    <3> QED
      BY <2>1, <2>2, <2>5, <2>6, <3>1 DEF Sound, SoundVerify, Kept, SameToken
  <2>9. SoundRevoke(q)'
    BY <2>1 DEF Sound, SoundRevoke
  <2>10. SoundList(q)'
    <3>1. \A t \in q.due \cap handed : record'[t] # None =>
             record[t] # None /\ record'[t].owner = record[t].owner
      BY <2>3, <2>5 DEF Kept, SameToken
    <3> QED
      BY <2>1, <3>1 DEF Sound, SoundList
  <2>11. (q.gone \subseteq revoked)'
    BY <2>1 DEF Sound
  <2> QED
    BY <2>7, <2>8, <2>9, <2>10, <2>11 DEF Sound, q
<1>4. \A s \in Requests : req'[s] # None => Sound(req[s])'
  BY <1>1, <1>2, <1>3
<1>5. \A s \in Requests : Alone(req, s)'
  BY <1>1, <1>2 DEF TokensInv, Alone, Fits
<1> QED
  BY <1>4, <1>5 DEF TokensInv

-----------------------------------------------------------------------------

\* A step that only moves a request on, or ends it, leaves the store as it was.
LEMMA MoveStep ==
    ASSUME TokensInv,
           NEW r \in Requests, NEW w \in Request \cup {None},
           req' = [req EXCEPT ![r] = w],
           UNCHANGED <<clock, record, index, history>>,
           w # None => Sound(w),
           Fits(r, w)
    PROVE  TokensInv'
<1>1. TokensTypeOK'
  BY DEF TokensInv, TokensTypeOK, history
<1>2. StoreInv'
  BY DEF TokensInv, StoreInv, RevokedStaysRevoked, UsableIndexed, Usable, UsedInLifetime, history
<1>3. w # None => Sound(w)'
  BY DEF Sound, SoundCreate, SoundVerify, SoundRevoke, SoundList, history
<1>4. None \notin Tokens
  BY TokensAssumption
<1>5. \A s \in Requests : req[s] # None /\ req[s].step = "record" => req[s].token # None
  BY <1>4 DEF TokensInv, Sound, SoundCreate, TokensTypeOK
<1>6. Touched(r, None)
  BY <1>4, <1>5, TokensAssumption DEF Touched, TokensInv, TokensTypeOK, Time, history
<1> QED
  BY <1>1, <1>2, <1>3, <1>6, SlotStep

\* A request that ends relies on nothing any more.
LEMMA EndStep ==
    ASSUME TokensInv, NEW r \in Requests, End(r), UNCHANGED <<clock, record, index, history>>
    PROVE  TokensInv'
BY MoveStep DEF End, Fits

\* What a request holds, once it is under way with a token that is not being created.
LEMMA OthersElsewhere ==
    ASSUME TokensInv, NEW r \in Requests, req[r] # None, req[r].token \in Tokens,
           \/ req[r].step # "find"
           \/ record[req[r].token] # None
    PROVE  \A s \in Requests \ {r} :
              req[s] # None /\ req[s].step = "record" => req[s].token # req[r].token
BY DEF TokensInv, Alone, Sound, SoundCreate

-----------------------------------------------------------------------------
(* What the operators that build a request return.                         *)

Steps == {"record", "index", "get", "check", "reread", "touch", "accept",
          "find", "erase", "unindex", "markers", "records", "listed"}

\* A new request: its fields, with the history of what held when it began.
LEMMA CallFacts ==
    ASSUME TokensTypeOK, NEW step \in Steps, NEW u \in Users \cup {None},
           NEW t \in Tokens \cup {None}, NEW copy \in Token \cup {None}, NEW now \in Time
    PROVE  LET w == Call(step, u, t, copy, now)
           IN  /\ w \in Request /\ w # None
               /\ w.step = step /\ w.actor = u /\ w.token = t
               /\ w.copy = copy /\ w.now = now /\ w.result = {} /\ w.gone = revoked
               /\ w.due = IF u = None THEN {} ELSE Usable(u)
<1>1. Usable(u) \subseteq Tokens /\ {} \subseteq Tokens
  BY DEF Usable, TokensTypeOK
<1>2. (IF u = None THEN {} ELSE Usable(u)) \in SUBSET Tokens
  BY <1>1
<1>3. Call(step, u, t, copy, now) \in Request
  BY <1>2 DEF Call, Request, Steps, TokensTypeOK
<1> QED
  BY <1>3, TokenAssumption DEF Call

\* A request that moves on keeps every other field.
LEMMA GotoFacts ==
    ASSUME NEW q \in Request, NEW step \in Steps
    PROVE  LET w == [q EXCEPT !.step = step]
           IN  /\ w \in Request /\ w # None
               /\ w.step = step /\ w.actor = q.actor /\ w.token = q.token
               /\ w.copy = q.copy /\ w.now = q.now /\ w.queue = q.queue
               /\ w.result = q.result /\ w.due = q.due /\ w.gone = q.gone
<1>1. [q EXCEPT !.step = step] \in Request
  BY DEF Request, Steps
<1> QED
  BY <1>1, TokenAssumption DEF Request

\* A request that has read a record holds it, and keeps the rest.
LEMMA HoldingFacts ==
    ASSUME NEW q \in Request, NEW step \in Steps, NEW copy \in Token
    PROVE  LET w == Holding(q, step, copy)
           IN  /\ w \in Request /\ w # None
               /\ w.step = step /\ w.actor = q.actor /\ w.token = q.token
               /\ w.copy = copy /\ w.now = q.now /\ w.gone = q.gone
<1>1. Holding(q, step, copy) \in Request
  BY DEF Holding, Request, Steps
<1> QED
  BY <1>1, TokenAssumption DEF Holding, Request

\* Verify's decision sets its instant, and goes to the touch or to the answer.
LEMMA DecidedFacts ==
    ASSUME NEW q \in Request, NEW now \in Time
    PROVE  LET w == Decided(q, now)
           IN  /\ w \in Request /\ w # None
               /\ w.step \in {"reread", "accept"} /\ w.token = q.token
               /\ w.copy = q.copy /\ w.now = now /\ w.gone = q.gone
<1>1. Decided(q, now) \in Request
  BY DEF Decided, Request
<1> QED
  BY <1>1, TokenAssumption DEF Decided, Request

\* A list in progress changes only what is left to read and what was found.
LEMMA ReadingFacts ==
    ASSUME NEW q \in Request, NEW queue \in SUBSET Tokens, NEW result \in SUBSET Tokens
    PROVE  LET w == Reading(q, queue, result)
           IN  /\ w \in Request /\ w # None
               /\ w.step = "records" /\ w.actor = q.actor /\ w.token = q.token
               /\ w.queue = queue /\ w.result = result
               /\ w.due = q.due /\ w.gone = q.gone
<1>1. Reading(q, queue, result) \in Request
  BY DEF Reading, Request
<1> QED
  BY <1>1, TokenAssumption DEF Reading, Request

-----------------------------------------------------------------------------

\* Verify up to the touch: what it has read stays true of the record while it is there.
LEMMA VerifyStep ==
    ASSUME TokensInv, NEW r \in Requests,
           \/ \E t \in Tokens : StartVerify(r, t)
           \/ Get(r) \/ Check(r) \/ Reread(r) \/ Accept(r)
    PROVE  TokensInv'
<1> DEFINE q == req[r]
<1>1. TokensTypeOK /\ clock \in Time /\ clock \in Nat
  BY TokensAssumption DEF TokensInv, TokensTypeOK, Time
<1>2. req[r] # None => q \in Request /\ Sound(q)
  BY DEF TokensInv, TokensTypeOK
<1>3. drawn \subseteq Tokens /\ handed \subseteq drawn
  BY DEF TokensInv, TokensTypeOK, StoreInv
<1> HIDE DEF q
<1>4. ASSUME NEW t \in Tokens, StartVerify(r, t)
      PROVE  TokensInv'
  <2> DEFINE w == Call("get", None, t, None, clock)
  <2>1. w \in Request /\ w # None /\ w.step = "get" /\ w.token = t /\ w.gone = revoked
    BY <1>1, CallFacts DEF Steps
  <2>2. req' = [req EXCEPT ![r] = w] /\ t \in handed
    BY <1>4 DEF StartVerify, Begin
  <2>3. UNCHANGED <<clock, record, index, history>>
    BY <1>4 DEF StartVerify
  <2> HIDE DEF w
  <2>4. Sound(w)
    BY <1>3, <2>1, <2>2 DEF Sound, SoundCreate, SoundVerify, SoundRevoke, SoundList
  <2>5. \A s \in Requests : req[s] # None /\ req[s].step = "record" => req[s].token # t
    BY <2>2 DEF TokensInv, Sound, SoundCreate
  <2> QED
    BY <2>1, <2>2, <2>3, <2>4, <2>5, MoveStep DEF Fits
<1>5. ASSUME Get(r)
      PROVE  TokensInv'
  <2> DEFINE w == Holding(q, "check", record[q.token])
  <2>1. q \in Request /\ Sound(q) /\ req[r] # None /\ q.step = "get" /\ record[q.token] # None
    BY <1>2, <1>5 DEF Get, At, q
  <2>2. q.token \in drawn /\ q.token \in Tokens
    BY <1>3, <2>1 DEF Sound, SoundVerify
  <2>3. record[q.token] \in Token
    BY <1>1, <2>1, <2>2 DEF TokensTypeOK
  <2>4. /\ w \in Request /\ w # None /\ w.step = "check" /\ w.token = q.token
        /\ w.copy = record[q.token] /\ w.gone = q.gone
    <3>1. "check" \in Steps
      BY DEF Steps
    <3> QED
      BY <2>1, <2>3, <3>1, HoldingFacts
  <2>5. req' = [req EXCEPT ![r] = w] /\ UNCHANGED <<clock, record, index, history>>
    BY <1>5 DEF Get, q
  <2> HIDE DEF w
  <2>6. q.gone \subseteq revoked /\ q.token \notin revoked /\ record[q.token].created <= clock
    BY <2>1, <2>2 DEF TokensInv, StoreInv, RevokedStaysRevoked, Sound
  <2>7. Sound(w)
    BY <2>2, <2>3, <2>4, <2>6
    DEF Sound, SoundCreate, SoundVerify, SoundRevoke, SoundList, SameToken
  <2>8. \A s \in Requests \ {r} :
           req[s] # None /\ req[s].step = "record" => req[s].token # w.token
    BY <2>1, <2>2, <2>4, OthersElsewhere DEF q
  <2> QED
    BY <2>4, <2>5, <2>7, <2>8, MoveStep DEF Fits
<1>6. ASSUME Check(r)
      PROVE  TokensInv'
  <2> DEFINE w == Decided(q, clock)
  <2>1. q \in Request /\ Sound(q) /\ req[r] # None /\ q.step = "check"
    BY <1>2, <1>6 DEF Check, At, q
  <2>2. CASE End(r)
    BY <1>6, <2>2, EndStep DEF Check
  <2>3. CASE ~Expired(q.copy, clock) /\ req' = [req EXCEPT ![r] = w]
    <3>1. /\ w \in Request /\ w # None /\ w.step \in {"reread", "accept"}
          /\ w.token = q.token /\ w.now = clock /\ w.gone = q.gone
      BY <1>1, <2>1, DecidedFacts
    <3>2. UNCHANGED <<clock, record, index, history>>
      BY <1>6 DEF Check
    <3> HIDE DEF w
    <3>3. /\ q.token \in drawn /\ q.token \in Tokens /\ q.token \notin q.gone
          /\ q.gone \subseteq revoked /\ q.copy \in Token
          /\ q.copy.created <= clock
          /\ record[q.token] # None => SameToken(record[q.token], q.copy)
      BY <1>3, <2>1 DEF Sound, SoundVerify
    <3>4. clock < q.copy.expires
      BY <1>1, <2>3, <3>3 DEF Expired, Token
    <3>5. Sound(w)
      BY <1>1, <3>1, <3>3, <3>4
      DEF Sound, SoundCreate, SoundVerify, SoundRevoke, SoundList, SameToken
    <3>6. \A s \in Requests \ {r} :
             req[s] # None /\ req[s].step = "record" => req[s].token # w.token
      BY <2>1, <3>1, <3>3, OthersElsewhere DEF q
    <3> QED
      BY <2>3, <3>1, <3>2, <3>5, <3>6, MoveStep DEF Fits
  <2> QED
    BY <1>6, <2>2, <2>3 DEF Check, q
<1>7. ASSUME Reread(r)
      PROVE  TokensInv'
  <2>1. q \in Request /\ Sound(q) /\ req[r] # None /\ q.step = "reread"
    BY <1>2, <1>7 DEF Reread, At, q
  <2>2. /\ q.token \in drawn /\ q.token \in Tokens /\ q.token \notin q.gone
        /\ q.gone \subseteq revoked /\ q.now <= clock
        /\ record[q.token] # None =>
              record[q.token].created <= q.now /\ q.now < record[q.token].expires
    BY <1>3, <2>1 DEF Sound, SoundVerify
  <2>3. UNCHANGED <<clock, record, index, history>>
    BY <1>7 DEF Reread
  <2>4. \A s \in Requests \ {r} :
           req[s] # None /\ req[s].step = "record" => req[s].token # q.token
    BY <2>1, <2>2, OthersElsewhere DEF q
  <2>5. CASE record[q.token] # None
    <3> DEFINE w == Holding(q, "touch", record[q.token])
    <3>1. record[q.token] \in Token
      BY <1>1, <2>2, <2>5 DEF TokensTypeOK
    <3>2. /\ w \in Request /\ w # None /\ w.step = "touch" /\ w.token = q.token
          /\ w.copy = record[q.token] /\ w.gone = q.gone /\ w.now = q.now
      <4>1. "touch" \in Steps
        BY DEF Steps
      <4> QED
        BY <2>1, <3>1, <4>1, HoldingFacts
    <3>3. req' = [req EXCEPT ![r] = w]
      BY <1>7, <2>5 DEF Reread, q
    <3> HIDE DEF w
    <3>4. Sound(w)
      BY <2>2, <2>5, <3>1, <3>2
      DEF Sound, SoundCreate, SoundVerify, SoundRevoke, SoundList
    <3> QED
      BY <2>3, <2>4, <3>2, <3>3, <3>4, MoveStep DEF Fits
  <2>6. CASE record[q.token] = None
    <3> DEFINE w == [q EXCEPT !.step = "accept"]
    <3>1. /\ w \in Request /\ w # None /\ w.step = "accept" /\ w.token = q.token
          /\ w.gone = q.gone
      BY <2>1, GotoFacts DEF Steps
    <3>2. req' = [req EXCEPT ![r] = w]
      BY <1>7, <2>6 DEF Reread, Goto, q
    <3> HIDE DEF w
    <3>3. Sound(w)
      BY <2>2, <3>1 DEF Sound, SoundCreate, SoundVerify, SoundRevoke, SoundList
    <3> QED
      BY <2>3, <2>4, <3>1, <3>2, <3>3, MoveStep DEF Fits
  <2> QED
    BY <2>5, <2>6
<1>8. ASSUME Accept(r)
      PROVE  TokensInv'
  BY <1>8, EndStep DEF Accept
<1> QED
  BY <1>4, <1>5, <1>6, <1>7, <1>8

\* TouchToken writes an instant within the token's life over the record it has read,
\* or nothing: a record that was deleted meanwhile does not match.
LEMMA TouchStep == ASSUME TokensInv, NEW r \in Requests, Touch(r) PROVE TokensInv'
<1> DEFINE q == req[r]
<1>0. PICK w : w = [q EXCEPT !.step = "accept"]
  OBVIOUS
<1>1. TokensTypeOK /\ clock \in Nat
  BY TokensAssumption DEF TokensInv, TokensTypeOK, Time
<1>2. q \in Request /\ Sound(q) /\ req[r] # None /\ q.step = "touch"
  BY DEF TokensInv, TokensTypeOK, Touch, At
<1>3. /\ q.token \in drawn /\ q.token \in Tokens /\ q.token \notin q.gone
      /\ q.gone \subseteq revoked /\ q.now <= clock /\ q.copy \in Token
      /\ q.copy.created <= q.now /\ q.now < q.copy.expires
  BY <1>2 DEF Sound, SoundVerify, TokensInv, StoreInv, TokensTypeOK
<1>4. /\ w \in Request /\ w # None /\ w.step = "accept" /\ w.token = q.token
      /\ w.gone = q.gone
  <2>1. "accept" \in Steps
    BY DEF Steps
  <2> QED
    BY <1>0, <1>2, <2>1, GotoFacts
<1>5. req' = [req EXCEPT ![r] = w] /\ UNCHANGED <<clock, index, history>>
  BY <1>0 DEF Touch, Goto
<1>6. \A s \in Requests \ {r} :
         req[s] # None /\ req[s].step = "record" => req[s].token # q.token
  BY <1>2, <1>3, OthersElsewhere
<1>7. CASE record[q.token] # q.copy
  <2>1. record' = record
    BY <1>7 DEF Touch, Matches
  <2>2. Sound(w)
    BY <1>3, <1>4 DEF Sound, SoundCreate, SoundVerify, SoundRevoke, SoundList
  <2> QED
    BY <1>4, <1>5, <1>6, <2>1, <2>2, MoveStep DEF Fits
<1>8. CASE record[q.token] = q.copy
  <2> DEFINE k == UsedAt(q.copy, q.now)
  <2>1. record' = [record EXCEPT ![q.token] = k]
    BY <1>8 DEF Touch, Matches
  <2>2. /\ k \in Token /\ k.owner = q.copy.owner /\ k.created = q.copy.created
        /\ k.expires = q.copy.expires /\ k.used = q.now
    BY <1>2, <1>3 DEF UsedAt, Token, Request
  <2>3. record[q.token] # None /\ k # None
    BY <1>3, <1>8, <2>2, TokenAssumption
  <2> HIDE DEF k, q
  <2>4. /\ record'[q.token] = k
        /\ \A t \in Tokens \ {q.token} : record'[t] = record[t]
        /\ record' \in [Tokens -> Token \cup {None}]
    BY <1>1, <1>3, <2>1, <2>2 DEF TokensTypeOK
  <2>5. TokensTypeOK'
    BY <1>1, <1>4, <1>5, <2>4 DEF TokensTypeOK, history
  <2>6. StoreInv'
    <3>1. \A t \in Tokens : record'[t] # None <=> record[t] # None
      BY <2>3, <2>4
    <3>2. \A t \in Tokens : record[t] # None =>
             record'[t].owner = record[t].owner /\ record'[t].created = record[t].created
      BY <1>8, <2>2, <2>4
    <3>3. RevokedStaysRevoked'
      BY <1>1, <1>5, <3>1 DEF TokensInv, StoreInv, RevokedStaysRevoked, history, TokensTypeOK
    <3>4. UsableIndexed'
      BY <1>1, <1>5, <3>1, <3>2 DEF TokensInv, StoreInv, UsableIndexed, Usable, history, TokensTypeOK
    <3>5. UsedInLifetime'
      BY <1>3, <1>5, <2>2, <2>3, <2>4 DEF TokensInv, StoreInv, UsedInLifetime
    <3>6. \A t \in Tokens : record'[t] # None => t \in drawn /\ record'[t].created <= clock
      BY <3>1, <3>2 DEF TokensInv, StoreInv
    <3> QED
      BY <1>5, <3>3, <3>4, <3>5, <3>6 DEF StoreInv, TokensInv, history
  <2>7. Sound(w)'
    <3>1. /\ w.step = "accept" /\ w.token \in drawn' /\ w.token \notin w.gone
          /\ w.gone \subseteq revoked'
      BY <1>3, <1>4, <1>5 DEF history
    <3> QED
      BY <3>1 DEF Sound, SoundCreate, SoundVerify, SoundRevoke, SoundList
  <2>8. Touched(r, q.token)
    <3>1. SameToken(record'[q.token], record[q.token])
      BY <1>8, <2>2, <2>4 DEF SameToken
    <3> QED
      BY <1>1, <1>3, <1>5, <1>6, <2>3, <2>4, <3>1 DEF Touched, history
  <2>9. Fits(r, w)
    BY <1>4, <1>6 DEF Fits
  <2> QED
    BY <1>4, <1>5, <2>5, <2>6, <2>7, <2>8, <2>9, SlotStep
<1> QED
  BY <1>7, <1>8

\* A drawn id is new, so no other request is bound to it yet but by a lookup.
LEMMA DrawStep ==
    ASSUME TokensInv, NEW r \in Requests, NEW u \in Users, NEW t \in Tokens,
           NEW ttl \in 1..MaxTTL, StartCreate(r, u, t, ttl)
    PROVE  TokensInv'
<1>1. TokensTypeOK /\ clock \in Nat /\ clock \in Time
  BY TokensAssumption DEF TokensInv, TokensTypeOK, Time
<1>2. PICK k : k = NewToken(u, ttl)
  OBVIOUS
<1>3. k \in Token /\ k.created = clock /\ k.used = None
  BY <1>1, <1>2, TokensAssumption DEF NewToken, Token
<1>4. PICK w : w = Call("record", u, t, k, clock)
  OBVIOUS
<1>5. /\ w \in Request /\ w # None /\ w.step = "record" /\ w.token = t
      /\ w.copy = k /\ w.gone = revoked
  <2>1. "record" \in Steps
    BY DEF Steps
  <2> QED
    BY <1>1, <1>3, <1>4, <2>1, CallFacts
<1>6. /\ req' = [req EXCEPT ![r] = w] /\ t \notin drawn /\ drawn' = drawn \cup {t}
      /\ UNCHANGED <<clock, record, index, handed, revoked>>
  BY <1>2, <1>4 DEF StartCreate, Begin
<1>7. TokensTypeOK'
  BY <1>1, <1>5, <1>6 DEF TokensTypeOK
<1>8. StoreInv'
  BY <1>6 DEF TokensInv, StoreInv, RevokedStaysRevoked, UsableIndexed, Usable, UsedInLifetime
<1>9. record[t] = None /\ t \notin handed /\ t \notin revoked
  BY <1>6 DEF TokensInv, StoreInv
<1>10. Sound(w)'
  BY <1>1, <1>3, <1>5, <1>6, <1>9
  DEF Sound, SoundCreate, SoundVerify, SoundRevoke, SoundList
<1>11. \A s \in Requests : req[s] # None /\ req[s].token = t => req[s].step = "find"
  <2>1. \A s \in Requests : req[s] # None /\ req[s].step # "find" =>
           req[s].token \in drawn \/ req[s].token = None
    <3> SUFFICES ASSUME NEW s \in Requests, req[s] # None, req[s].step # "find"
                 PROVE  req[s].token \in drawn \/ req[s].token = None
      OBVIOUS
    <3>1. req[s] \in Request /\ Sound(req[s]) /\ revoked \subseteq drawn
      BY DEF TokensInv, TokensTypeOK, StoreInv
    <3> QED
      BY <3>1 DEF Sound, SoundCreate, SoundVerify, SoundRevoke, SoundList, Request
  <2> QED
    BY <1>6, <2>1, TokensAssumption
<1>12. Fits(r, w)
  BY <1>5, <1>11 DEF Fits
<1>13. Touched(r, t)
  BY <1>1, <1>6, <1>11 DEF Touched
<1> QED
  BY <1>5, <1>6, <1>7, <1>8, <1>10, <1>12, <1>13, SlotStep

\* The record is stored under an id nobody has: it is neither usable nor revoked yet.
LEMMA PutRecordStep == ASSUME TokensInv, NEW r \in Requests, PutRecord(r) PROVE TokensInv'
<1> DEFINE q == req[r]
<1>1. TokensTypeOK /\ clock \in Nat
  BY TokensAssumption DEF TokensInv, TokensTypeOK, Time
<1>2. q \in Request /\ Sound(q) /\ Alone(req, r) /\ req[r] # None /\ q.step = "record"
  BY DEF TokensInv, TokensTypeOK, PutRecord, At
<1>3. PICK w : w \in {None, [q EXCEPT !.step = "index"]} /\ req' = [req EXCEPT ![r] = w]
  BY DEF PutRecord, Goto, End
<1>4. w # None => /\ w \in Request /\ w.step = "index" /\ w.token = q.token
                  /\ w.copy = q.copy /\ w.gone = q.gone
  <2>1. "index" \in Steps
    BY DEF Steps
  <2> QED
    <3>1. w # None => w = [q EXCEPT !.step = "index"]
      BY <1>3
    <3>2. LET v == [q EXCEPT !.step = "index"]
          IN  /\ v \in Request /\ v.step = "index" /\ v.token = q.token
              /\ v.copy = q.copy /\ v.gone = q.gone
      BY <1>2, <2>1, GotoFacts
    <3> QED
      BY <3>1, <3>2
<1>5. /\ record[q.token] = None /\ UNCHANGED <<clock, index, history>>
      /\ record' = [record EXCEPT ![q.token] = q.copy]
  BY DEF PutRecord
<1>6. /\ q.token \in drawn \ (handed \cup revoked) /\ q.token \in Tokens
      /\ q.copy \in Token /\ q.copy.created <= clock /\ q.copy.used = None
      /\ q.gone \subseteq revoked
  BY <1>1, <1>2 DEF Sound, SoundCreate, TokensTypeOK
<1>7. \A s \in Requests \ {r} : req[s] # None /\ req[s].token = q.token => req[s].step = "find"
  BY <1>2 DEF Alone
<1> HIDE DEF q
<1>8. /\ record'[q.token] = q.copy
      /\ \A t \in Tokens \ {q.token} : record'[t] = record[t]
      /\ record' \in [Tokens -> Token \cup {None}]
  BY <1>1, <1>5, <1>6 DEF TokensTypeOK
<1>9. TokensTypeOK'
  BY <1>1, <1>3, <1>4, <1>5, <1>8 DEF TokensTypeOK, history
<1>10. StoreInv'
  <2>1. drawn' = drawn /\ handed' = handed /\ revoked' = revoked /\ clock' = clock /\ index' = index
    BY <1>5 DEF history
  <2>2. RevokedStaysRevoked' /\ UsableIndexed'
    BY <1>1, <1>6, <1>8, <2>1 DEF TokensInv, StoreInv, RevokedStaysRevoked, UsableIndexed, Usable, TokensTypeOK
  <2>3. UsedInLifetime'
    BY <1>6, <1>8, <2>1 DEF TokensInv, StoreInv, UsedInLifetime
  <2>4. \A t \in Tokens : record'[t] # None => t \in drawn /\ record'[t].created <= clock
    BY <1>6, <1>8 DEF TokensInv, StoreInv
  <2> QED
    BY <2>1, <2>2, <2>3, <2>4 DEF StoreInv, TokensInv
<1>11. w # None => Sound(w)'
  <2>1. w # None => /\ w.step = "index" /\ w.token \in drawn' /\ w.copy \in Token
                    /\ w.gone \subseteq revoked' /\ record'[w.token] = w.copy
    BY <1>4, <1>5, <1>6, <1>8 DEF history
  <2> QED
    BY <2>1 DEF Sound, SoundCreate, SoundVerify, SoundRevoke, SoundList
<1>12. Fits(r, w)
  BY <1>4, <1>7 DEF Fits
<1>13. Touched(r, q.token)
  BY <1>1, <1>5, <1>6, <1>7, <1>8 DEF Touched, history
<1> QED
  BY <1>3, <1>4, <1>9, <1>10, <1>11, <1>12, <1>13, SlotStep

\* The plaintext is returned only once the marker is in the owner's index.
LEMMA PutMarkerStep == ASSUME TokensInv, NEW r \in Requests, PutMarker(r) PROVE TokensInv'
<1> DEFINE q == req[r]
<1>1. TokensTypeOK /\ clock \in Nat
  BY TokensAssumption DEF TokensInv, TokensTypeOK, Time
<1>2. q \in Request /\ Sound(q) /\ req[r] # None /\ q.step = "index"
  BY DEF TokensInv, TokensTypeOK, PutMarker, At
<1>3. /\ q.token \in drawn /\ q.token \in Tokens /\ q.copy \in Token /\ q.copy.owner \in Users
      /\ record[q.token] # None => record[q.token].owner = q.copy.owner
  BY <1>1, <1>2 DEF Sound, SoundCreate, TokensTypeOK, Token
<1>4. /\ index' = [index EXCEPT ![q.copy.owner] = @ \cup {q.token}]
      /\ req' = [req EXCEPT ![r] = None]
      /\ handed \subseteq handed' /\ handed' \subseteq handed \cup {q.token}
      /\ UNCHANGED <<clock, record, drawn, revoked>>
  BY DEF PutMarker, End
<1>5. \A s \in Requests \ {r} :
         req[s] # None /\ req[s].step = "record" => req[s].token # q.token
  BY <1>2, <1>3, OthersElsewhere
<1> HIDE DEF q
<1>6. TokensTypeOK'
  BY <1>1, <1>3, <1>4 DEF TokensTypeOK
<1>7. StoreInv'
  <2>1. /\ q.token \in index'[q.copy.owner]
        /\ \A u \in Users : index[u] \subseteq index'[u]
    BY <1>1, <1>3, <1>4 DEF TokensTypeOK
  <2>2. UsableIndexed'
    BY <1>3, <1>4, <2>1 DEF TokensInv, StoreInv, UsableIndexed, Usable
  <2>3. RevokedStaysRevoked' /\ UsedInLifetime'
    BY <1>4 DEF TokensInv, StoreInv, RevokedStaysRevoked, UsedInLifetime
  <2> QED
    BY <1>3, <1>4, <2>2, <2>3 DEF TokensInv, StoreInv
<1>8. Fits(r, None) /\ Touched(r, q.token)
  BY <1>1, <1>4, <1>5 DEF Fits, Touched
<1> QED
  BY <1>4, <1>6, <1>7, <1>8, SlotStep

\* A lookup finds the owner's token; a deletion leaves a revoked id; only then is the
\* marker taken away.
LEMMA RevokeStep ==
    ASSUME TokensInv, NEW r \in Requests,
           \/ \E u \in Users, t \in Tokens : StartRevoke(r, u, t)
           \/ Find(r) \/ Erase(r) \/ Unindex(r)
    PROVE  TokensInv'
<1> DEFINE q == req[r]
<1>1. TokensTypeOK /\ clock \in Time /\ clock \in Nat
  BY TokensAssumption DEF TokensInv, TokensTypeOK, Time
<1>2. req[r] # None => q \in Request /\ Sound(q)
  BY DEF TokensInv, TokensTypeOK
<1> HIDE DEF q
<1>3. ASSUME NEW u \in Users, NEW t \in Tokens, StartRevoke(r, u, t)
      PROVE  TokensInv'
  <2>1. PICK w : w = Call("find", u, t, None, clock)
    OBVIOUS
  <2>2. "find" \in Steps
    BY DEF Steps
  <2>3. /\ w \in Request /\ w # None /\ w.step = "find" /\ w.token = t
        /\ w.gone = revoked
    BY <1>1, <2>1, <2>2, CallFacts
  <2>4. req' = [req EXCEPT ![r] = w] /\ UNCHANGED <<clock, record, index, history>>
    BY <1>3, <2>1 DEF StartRevoke, Begin
  <2>5. Sound(w) /\ Fits(r, w)
    BY <2>3 DEF Sound, SoundCreate, SoundVerify, SoundRevoke, SoundList, Fits
  <2> QED
    BY <2>3, <2>4, <2>5, MoveStep
<1>4. ASSUME Find(r)
      PROVE  TokensInv'
  <2>1. /\ q \in Request /\ Sound(q) /\ req[r] # None /\ q.step = "find"
        /\ record[q.token] # None
    BY <1>2, <1>4 DEF Find, At, q
  <2>2. q.token \in Tokens
    BY <2>1 DEF Sound, SoundRevoke
  <2>3. record[q.token] \in Token /\ q.token \in drawn
    BY <1>1, <2>1, <2>2 DEF TokensTypeOK, TokensInv, StoreInv
  <2>4. PICK w : w = Holding(q, "erase", record[q.token])
    OBVIOUS
  <2>5. "erase" \in Steps
    BY DEF Steps
  <2>6. /\ w \in Request /\ w # None /\ w.step = "erase" /\ w.token = q.token
        /\ w.copy = record[q.token] /\ w.gone = q.gone
    BY <2>1, <2>3, <2>4, <2>5, HoldingFacts
  <2>7. req' = [req EXCEPT ![r] = w] /\ UNCHANGED <<clock, record, index, history>>
    BY <1>4, <2>4 DEF Find, q
  <2>8. Sound(w)
    BY <2>1, <2>3, <2>6 DEF Sound, SoundCreate, SoundVerify, SoundRevoke, SoundList
  <2>9. Fits(r, w)
    BY <2>1, <2>2, <2>6, OthersElsewhere DEF Fits, q
  <2> QED
    BY <2>6, <2>7, <2>8, <2>9, MoveStep
<1>5. ASSUME Erase(r)
      PROVE  TokensInv'
  <2>1. /\ q \in Request /\ Sound(q) /\ req[r] # None /\ q.step = "erase"
        /\ record' = [record EXCEPT ![q.token] = None]
        /\ revoked' = revoked \cup {q.token}
        /\ UNCHANGED <<clock, index, drawn, handed>>
    BY <1>2, <1>5 DEF Erase, At, q
  <2>2. /\ q.token \in drawn /\ q.token \in Tokens /\ q.copy \in Token
        /\ q.gone \subseteq revoked
    BY <1>1, <2>1 DEF Sound, SoundRevoke, TokensTypeOK
  <2>3. PICK w : w \in {None, [q EXCEPT !.step = "unindex"]} /\ req' = [req EXCEPT ![r] = w]
    BY <1>5 DEF Erase, Goto, End, q
  <2>4. w # None => /\ w \in Request /\ w.step = "unindex" /\ w.token = q.token
                    /\ w.copy = q.copy /\ w.gone = q.gone
    <3>1. w # None => w = [q EXCEPT !.step = "unindex"]
      BY <2>3
    <3>2. "unindex" \in Steps
      BY DEF Steps
    <3>3. LET v == [q EXCEPT !.step = "unindex"]
          IN  /\ v \in Request /\ v.step = "unindex" /\ v.token = q.token
              /\ v.copy = q.copy /\ v.gone = q.gone
      BY <2>1, <3>2, GotoFacts
    <3> QED
      BY <3>1, <3>3
  <2>5. \A s \in Requests \ {r} :
           req[s] # None /\ req[s].step = "record" => req[s].token # q.token
    BY <2>1, <2>2, OthersElsewhere DEF q
  <2>6. /\ record'[q.token] = None
        /\ \A t \in Tokens \ {q.token} : record'[t] = record[t]
        /\ record' \in [Tokens -> Token \cup {None}]
    BY <1>1, <2>1, <2>2 DEF TokensTypeOK
  <2>7. TokensTypeOK'
    BY <1>1, <2>1, <2>2, <2>3, <2>4, <2>6 DEF TokensTypeOK
  <2>8. StoreInv'
    <3>1. \A t \in Tokens : record'[t] # None => record'[t] = record[t]
      BY <2>6
    <3>2. RevokedStaysRevoked' /\ UsedInLifetime'
      BY <1>1, <2>1, <2>6, <3>1 DEF TokensInv, StoreInv, RevokedStaysRevoked, UsedInLifetime, TokensTypeOK
    <3>3. UsableIndexed'
      BY <1>1, <2>1, <3>1 DEF TokensInv, StoreInv, UsableIndexed, Usable, TokensTypeOK
    <3> QED
      BY <2>1, <2>2, <3>1, <3>2, <3>3 DEF TokensInv, StoreInv
  <2>9. w # None => Sound(w)'
    <3>1. w # None => /\ w.step = "unindex" /\ w.token \in revoked' /\ w.copy \in Token
                      /\ w.gone \subseteq revoked'
      BY <2>1, <2>2, <2>4
    <3> QED
      BY <3>1 DEF Sound, SoundCreate, SoundVerify, SoundRevoke, SoundList
  <2>10. Fits(r, w)
    BY <2>4, <2>5 DEF Fits
  <2>11. Touched(r, q.token)
    BY <1>1, <2>1, <2>2, <2>5, <2>6 DEF Touched
  <2> QED
    BY <2>3, <2>4, <2>7, <2>8, <2>9, <2>10, <2>11, SlotStep
<1>6. ASSUME Unindex(r)
      PROVE  TokensInv'
  <2>1. /\ q \in Request /\ Sound(q) /\ q.step = "unindex"
        /\ index' = [index EXCEPT ![q.copy.owner] = @ \ {q.token}]
        /\ req' = [req EXCEPT ![r] = None]
        /\ UNCHANGED <<clock, record, history>>
    BY <1>2, <1>6 DEF Unindex, At, End, q
  <2>2. q.token \in revoked /\ q.token \in Tokens /\ q.copy.owner \in Users
    BY <1>1, <2>1 DEF Sound, SoundRevoke, TokensTypeOK, Token
  <2>3. TokensTypeOK'
    BY <1>1, <2>1, <2>2 DEF TokensTypeOK, history
  <2>4. StoreInv'
    <3>1. UsableIndexed'
      <4>1. \A u \in Users : index[u] \ {q.token} \subseteq index'[u]
        BY <1>1, <2>1, <2>2 DEF TokensTypeOK
      <4>2. \A u \in Users : q.token \notin Usable(u)
        BY <2>2 DEF TokensInv, StoreInv, RevokedStaysRevoked, Usable
      <4>3. \A u \in Users : Usable(u) \subseteq index'[u]
        BY <4>1, <4>2 DEF TokensInv, StoreInv, UsableIndexed
      <4>4. record' = record /\ handed' = handed
        BY <2>1 DEF history
      <4> QED
        BY <4>3, <4>4 DEF UsableIndexed, Usable
    <3> QED
      BY <2>1, <3>1 DEF TokensInv, StoreInv, RevokedStaysRevoked, UsedInLifetime, history
  <2>5. Fits(r, None) /\ Touched(r, None)
    <3>1. \A s \in Requests : req[s] # None /\ req[s].step = "record" => req[s].token # None
      BY TokensAssumption DEF TokensInv, Sound, SoundCreate, TokensTypeOK
    <3> QED
      BY <1>1, <2>1, <3>1, TokensAssumption DEF Fits, Touched, history
  <2> QED
    BY <2>1, <2>3, <2>4, <2>5, SlotStep
<1> QED
  BY <1>3, <1>4, <1>5, <1>6

\* A list has, of the tokens due, what it found and what is still to be read.
LEMMA ListStep ==
    ASSUME TokensInv, NEW r \in Requests,
           \/ \E u \in Users : StartList(r, u)
           \/ Markers(r)
           \/ \E t \in Tokens : ReadRecord(r, t)
           \/ Listed(r) \/ AnswerList(r)
    PROVE  TokensInv'
<1> DEFINE q == req[r]
<1>1. TokensTypeOK /\ clock \in Time
  BY TokensAssumption DEF TokensInv, TokensTypeOK
<1>2. req[r] # None => q \in Request /\ Sound(q)
  BY DEF TokensInv, TokensTypeOK
<1>3. handed \subseteq Tokens /\ None \notin Tokens /\ None \notin Users
  BY <1>1, TokensAssumption DEF TokensTypeOK
<1>4. \A s \in Requests : req[s] # None /\ req[s].step = "record" => req[s].token # None
  BY <1>3 DEF TokensInv, Sound, SoundCreate, TokensTypeOK
<1> HIDE DEF q
<1>5. ASSUME NEW u \in Users, StartList(r, u)
      PROVE  TokensInv'
  <2>1. PICK w : w = Call("markers", u, None, None, clock)
    OBVIOUS
  <2>2. "markers" \in Steps
    BY DEF Steps
  <2>3. /\ w \in Request /\ w # None /\ w.step = "markers" /\ w.token = None
        /\ w.actor = u /\ w.gone = revoked /\ w.result = {} /\ w.due = Usable(u)
    BY <1>1, <1>3, <2>1, <2>2, CallFacts
  <2>4. req' = [req EXCEPT ![r] = w] /\ UNCHANGED <<clock, record, index, history>>
    BY <1>5, <2>1 DEF StartList, Begin
  <2>5. Sound(w)
    BY <2>3 DEF Sound, SoundCreate, SoundVerify, SoundRevoke, SoundList, Usable
  <2>6. Fits(r, w)
    BY <1>4, <2>3 DEF Fits
  <2> QED
    BY <2>3, <2>4, <2>5, <2>6, MoveStep
<1>6. ASSUME Markers(r)
      PROVE  TokensInv'
  <2>1. /\ q \in Request /\ Sound(q) /\ q.step = "markers"
        /\ UNCHANGED <<clock, record, index, history>>
    BY <1>2, <1>6 DEF Markers, At, q
  <2>2. PICK w : w = Reading(q, index[q.actor], {})
    OBVIOUS
  <2>3. req' = [req EXCEPT ![r] = w]
    BY <1>6, <2>2 DEF Markers, q
  <2>4. /\ q.token = None /\ q.actor \in Users /\ q.due \subseteq handed
        /\ q.gone \subseteq revoked
        /\ \A t \in q.due : record[t] # None => record[t].owner = q.actor
    BY <2>1 DEF Sound, SoundList
  <2>5. index[q.actor] \in SUBSET Tokens /\ {} \in SUBSET Tokens
    BY <1>1, <2>4 DEF TokensTypeOK
  <2>6. /\ w \in Request /\ w # None /\ w.step = "records" /\ w.actor = q.actor
        /\ w.token = q.token /\ w.queue = index[q.actor] /\ w.result = {}
        /\ w.due = q.due /\ w.gone = q.gone
    BY <2>1, <2>2, <2>5, ReadingFacts
  <2>7. {t \in q.due : record[t] # None} \subseteq index[q.actor]
    BY <1>3, <2>4 DEF TokensInv, StoreInv, UsableIndexed, Usable
  <2>8. Sound(w)
    BY <2>4, <2>6, <2>7 DEF Sound, SoundCreate, SoundVerify, SoundRevoke, SoundList
  <2>9. Fits(r, w)
    BY <1>4, <2>4, <2>6 DEF Fits
  <2> QED
    BY <2>1, <2>3, <2>6, <2>8, <2>9, MoveStep
<1>7. ASSUME NEW t \in Tokens, ReadRecord(r, t)
      PROVE  TokensInv'
  <2> DEFINE found == q.result \cup {x \in {t} : Lists(x, q.actor)}
  <2>1. /\ q \in Request /\ Sound(q) /\ q.step = "records"
        /\ UNCHANGED <<clock, record, index, history>>
    BY <1>2, <1>7 DEF ReadRecord, At, q
  <2>2. PICK w : w = Reading(q, q.queue \ {t}, found)
    OBVIOUS
  <2>3. req' = [req EXCEPT ![r] = w]
    BY <1>7, <2>2 DEF ReadRecord, q
  <2>4. /\ q.token = None /\ q.actor \in Users /\ q.due \subseteq handed
        /\ q.gone \subseteq revoked /\ q.result \cap q.gone = {}
        /\ \A x \in q.due : record[x] # None => record[x].owner = q.actor
        /\ {x \in q.due : record[x] # None} \subseteq q.result \cup q.queue
    BY <2>1 DEF Sound, SoundList
  <2>5. q.queue \ {t} \in SUBSET Tokens /\ found \in SUBSET Tokens
    BY <2>1 DEF Request
  <2> HIDE DEF found
  <2>6. /\ w \in Request /\ w # None /\ w.step = "records" /\ w.actor = q.actor
        /\ w.token = q.token /\ w.queue = q.queue \ {t} /\ w.result = found
        /\ w.due = q.due /\ w.gone = q.gone
    BY <2>1, <2>2, <2>5, ReadingFacts
  <2>7. found \cap q.gone = {}
    BY <2>4 DEF found, Lists, TokensInv, StoreInv, RevokedStaysRevoked
  <2>8. {x \in q.due : record[x] # None} \subseteq found \cup (q.queue \ {t})
    BY <2>4 DEF found, Lists
  <2>9. Sound(w)
    BY <2>4, <2>6, <2>7, <2>8 DEF Sound, SoundCreate, SoundVerify, SoundRevoke, SoundList
  <2>10. Fits(r, w)
    BY <1>4, <2>4, <2>6 DEF Fits
  <2> QED
    BY <2>1, <2>3, <2>6, <2>9, <2>10, MoveStep
<1>8. ASSUME Listed(r)
      PROVE  TokensInv'
  <2>1. /\ q \in Request /\ Sound(q) /\ q.step = "records" /\ q.queue = {}
        /\ UNCHANGED <<clock, record, index, history>>
    BY <1>2, <1>8 DEF Listed, At, q
  <2>2. PICK w : w = [q EXCEPT !.step = "listed"]
    OBVIOUS
  <2>3. req' = [req EXCEPT ![r] = w]
    BY <1>8, <2>2 DEF Listed, Goto, q
  <2>4. "listed" \in Steps
    BY DEF Steps
  <2>5. /\ w \in Request /\ w # None /\ w.step = "listed" /\ w.actor = q.actor
        /\ w.token = q.token /\ w.result = q.result
        /\ w.due = q.due /\ w.gone = q.gone
    BY <2>1, <2>2, <2>4, GotoFacts
  <2>6. q.token = None /\ Sound(w)
    BY <2>1, <2>5 DEF Sound, SoundCreate, SoundVerify, SoundRevoke, SoundList
  <2>7. Fits(r, w)
    BY <1>4, <2>5, <2>6 DEF Fits
  <2> QED
    BY <2>1, <2>3, <2>5, <2>6, <2>7, MoveStep
<1>9. ASSUME AnswerList(r)
      PROVE  TokensInv'
  BY <1>9, EndStep DEF AnswerList
<1> QED
  BY <1>5, <1>6, <1>7, <1>8, <1>9

\* A failed call ends its request; a failed touch still lets the token be accepted.
LEMMA FailsStep == ASSUME TokensInv, NEW r \in Requests, Fails(r) PROVE TokensInv'
<1> DEFINE q == req[r]
<1>1. q \in Request /\ Sound(q) /\ req[r] # None /\ UNCHANGED <<clock, record, index, history>>
  BY DEF TokensInv, TokensTypeOK, Fails
<1>2. CASE End(r)
  BY <1>1, <1>2, EndStep
<1>3. CASE q.step \in {"reread", "touch"} /\ Goto(r, "accept")
  <2>1. PICK w : w = [q EXCEPT !.step = "accept"]
    OBVIOUS
  <2>2. "accept" \in Steps
    BY DEF Steps
  <2>3. /\ w \in Request /\ w # None /\ w.step = "accept" /\ w.token = q.token
        /\ w.gone = q.gone
    BY <1>1, <2>1, <2>2, GotoFacts
  <2>4. req' = [req EXCEPT ![r] = w]
    BY <1>3, <2>1 DEF Goto
  <2>5. /\ q.token \in drawn /\ q.token \in Tokens /\ q.token \notin q.gone
        /\ q.gone \subseteq revoked /\ q.step # "find"
    BY <1>1, <1>3 DEF Sound, SoundVerify, TokensInv, TokensTypeOK
  <2>6. Sound(w)
    BY <2>3, <2>5 DEF Sound, SoundCreate, SoundVerify, SoundRevoke, SoundList
  <2>7. Fits(r, w)
    BY <1>1, <2>3, <2>5, OthersElsewhere DEF Fits
  <2> QED
    BY <1>1, <2>3, <2>4, <2>6, <2>7, MoveStep
<1> QED
  BY <1>2, <1>3 DEF Fails

\* A restart forgets what was in flight.
LEMMA RestartStep == ASSUME TokensInv, Restart PROVE TokensInv'
<1>1. req' = [r \in Requests |-> None] /\ UNCHANGED <<clock, record, index, history>>
  BY DEF Restart
<1>2. TokensTypeOK'
  BY <1>1 DEF TokensInv, TokensTypeOK, history
<1>3. StoreInv'
  BY <1>1 DEF TokensInv, StoreInv, RevokedStaysRevoked, UsableIndexed, Usable, UsedInLifetime, history
<1> QED
  BY <1>1, <1>2, <1>3 DEF TokensInv, Alone

\* Time passes: nothing that was created or used lies in the future afterwards.
LEMMA TickStep == ASSUME TokensInv, Tick PROVE TokensInv'
<1>1. /\ clock \in Nat /\ clock' = clock + 1 /\ clock' \in Time /\ TokensTypeOK
      /\ UNCHANGED <<record, index, req, history>>
  BY TokensAssumption DEF TokensInv, TokensTypeOK, Time, Tick
<1>2. TokensTypeOK'
  BY <1>1 DEF TokensTypeOK, history
<1>3. \A t \in Tokens : record[t] # None =>
         record[t].created \in Nat /\ (record[t].used # None => record[t].used \in Nat)
  BY <1>1, TokensAssumption DEF TokensTypeOK, Token, Time
<1>4. StoreInv'
  <2>1. UsedInLifetime'
    BY <1>1, <1>3 DEF TokensInv, StoreInv, UsedInLifetime
  <2>2. RevokedStaysRevoked' /\ UsableIndexed'
    BY <1>1 DEF TokensInv, StoreInv, RevokedStaysRevoked, UsableIndexed, Usable, history
  <2> QED
    BY <1>1, <1>3, <2>1, <2>2 DEF TokensInv, StoreInv, history
<1>5. ASSUME NEW r \in Requests, req[r] # None
      PROVE  Sound(req[r])'
  <2>1. req[r] \in Request /\ Sound(req[r]) /\ req[r].now \in Nat
    BY <1>1, <1>5, TokensAssumption DEF TokensInv, TokensTypeOK, Request, Time
  <2>2. \A c \in Token : c.created \in Nat
    BY TokensAssumption DEF Token, Time
  <2>3. PICK q : q = req[r] /\ q' = q
    BY <1>1
  <2>4. SoundCreate(q)' /\ SoundVerify(q)'
    BY <1>1, <2>1, <2>2, <2>3 DEF Sound, SoundCreate, SoundVerify, history
  <2>5. SoundRevoke(q)' /\ SoundList(q)' /\ (q.gone \subseteq revoked)'
    BY <1>1, <2>1, <2>3 DEF Sound, SoundRevoke, SoundList, history
  <2> QED
    BY <1>1, <2>3, <2>4, <2>5 DEF Sound
<1> QED
  BY <1>1, <1>2, <1>4, <1>5 DEF TokensInv, Alone

-----------------------------------------------------------------------------

\* Every step keeps the inductive invariant.
LEMMA TokensNextInv == TokensInv /\ [TokensNext]_tokensVars => TokensInv'
<1> SUFFICES ASSUME TokensInv, [TokensNext]_tokensVars PROVE TokensInv'
  OBVIOUS
<1>1. CASE UNCHANGED tokensVars
  BY <1>1 DEF tokensVars, history, TokensInv, TokensTypeOK, StoreInv, RevokedStaysRevoked, UsableIndexed,
              Usable, UsedInLifetime, Sound, SoundCreate, SoundVerify, SoundRevoke,
              SoundList, Alone
<1>2. ASSUME NEW r \in Requests, Create(r)
      PROVE  TokensInv'
  BY <1>2, DrawStep, PutRecordStep, PutMarkerStep DEF Create
<1>3. ASSUME NEW r \in Requests, Verify(r)
      PROVE  TokensInv'
  BY <1>3, VerifyStep, TouchStep DEF Verify
<1>4. ASSUME NEW r \in Requests, Revoke(r)
      PROVE  TokensInv'
  BY <1>4, RevokeStep DEF Revoke
<1>5. ASSUME NEW r \in Requests, List(r)
      PROVE  TokensInv'
  BY <1>5, ListStep DEF List
<1> QED
  BY <1>1, <1>2, <1>3, <1>4, <1>5, FailsStep, RestartStep, TickStep DEF TokensNext

\* The inductive invariant holds in every reachable state.
THEOREM TokensInvariance == TokensSpec => []TokensInv
BY TokensInitInv, TokensNextInv, PTL DEF TokensSpec

\* Type correctness, for every value of the constants.
THEOREM TypeCorrect == TokensSpec => []TokensTypeOK
<1>1. TokensInv => TokensTypeOK
  BY DEF TokensInv
<1> QED
  BY TokensInvariance, <1>1, PTL

\* No touch, whenever it read the record, brings a revoked token back.
THEOREM RevocationFinal == TokensSpec => []RevokedStaysRevoked
<1>1. TokensInv => RevokedStaysRevoked
  BY DEF TokensInv, StoreInv
<1> QED
  BY TokensInvariance, <1>1, PTL

\* A verification that begins after a revocation is refused.
THEOREM RevocationEffective == TokensSpec => []RevocationTakesEffect
<1>1. TokensInv => RevocationTakesEffect
  BY DEF TokensInv, RevocationTakesEffect, At, Sound, SoundVerify
<1> QED
  BY TokensInvariance, <1>1, PTL

\* Whatever failed, a token somebody can use is one its owner can find.
THEOREM UsableFound == TokensSpec => []UsableIndexed
<1>1. TokensInv => UsableIndexed
  BY DEF TokensInv, StoreInv
<1> QED
  BY TokensInvariance, <1>1, PTL

\* The recorded use of a token lies within its life and in the past.
THEOREM UseTrue == TokensSpec => []UsedInLifetime
<1>1. TokensInv => UsedInLifetime
  BY DEF TokensInv, StoreInv
<1> QED
  BY TokensInvariance, <1>1, PTL

\* A list misses no token that was usable throughout, and shows none revoked before it.
THEOREM ListsExact == TokensSpec => []ListExact
<1>1. TokensInv => ListExact
  BY DEF TokensInv, ListExact, At, Sound, SoundList
<1> QED
  BY TokensInvariance, <1>1, PTL

\* Whatever touch ends late, a stored token is well-formed, not revoked, and truly used.
THEOREM RecordsSafe == TokensSpec => []RecordsTrue
<1>1. TokensTypeOK /\ RevokedStaysRevoked /\ UsedInLifetime => RecordsTrue
  BY DEF RecordsTrue
<1> QED
  BY TypeCorrect, RevocationFinal, UseTrue, <1>1, PTL

-----------------------------------------------------------------------------
(* Identity: what VerifyFirst finds is told by four facts (VerifyFact), what *)
(* Resolve makes of it mode by mode; a decision stays true until it is     *)
(* handled, because neither the configuration nor the request changes.     *)

Verified(q, down, v) ==
    \/ /\ HasToken(q) /\ ~down /\ q.bearer \in live
       /\ v.who = [email |-> q.bearer, source |-> "token"]
    \/ /\ ~HasToken(q) /\ HasJWT(q) /\ q.jwt \in Users /\ keys
       /\ v.who = [email |-> q.jwt, source |-> "proxy_jwt"]

\* Checking the credentials of a request proves somebody, or ends with a reason; a
\* credential that is presented always decides, and one that is refused as bad has a cause.
VerifyOK(q, down, v) ==
    /\ v.error \in {None, "missing", "invalid", "unavailable"}
    /\ v.error = None => Verified(q, down, v)
    /\ v.error # None => v.who = Nobody
    /\ v.error = "missing" <=> ~HasToken(q) /\ ~HasJWT(q)
    /\ v.error = "invalid" /\ HasToken(q) =>
         \/ q.bearer = "malformed"
         \/ ~down /\ q.bearer \notin live
    /\ v.error = "invalid" /\ ~HasToken(q) =>
         \/ q.jwt \notin Users
         \/ ~keys

LEMMA VerifyFact ==
    ASSUME NEW q \in Incoming, NEW down \in BOOLEAN
    PROVE  VerifyOK(q, down, VerifyFirst(q, down))
<1>1. CASE HasToken(q)
  <2>1. PICK v : v = VerifyFirst(q, down)
    OBVIOUS
  <2>2. v = VerifyToken(q, down)
    BY <1>1, <2>1 DEF VerifyFirst
  <2>3. VerifyOK(q, down, v)
    BY <1>1, <2>2, IdentityAssumption
    DEF VerifyToken, VerifyOK, Verified, Proof, NoProof
  <2>. QED BY <2>1, <2>3
<1>2. CASE ~HasToken(q) /\ HasJWT(q)
  <2>1. PICK v : v = VerifyFirst(q, down)
    OBVIOUS
  <2>2. v = VerifyProxy(q)
    BY <1>2, <2>1 DEF VerifyFirst
  <2>3. VerifyOK(q, down, v)
    BY <1>2, <2>2, IdentityAssumption
    DEF VerifyProxy, VerifyOK, Verified, Proof, NoProof
  <2>. QED BY <2>1, <2>3
<1>3. CASE ~HasToken(q) /\ ~HasJWT(q)
  BY <1>3, IdentityAssumption DEF VerifyFirst, VerifyOK, NoProof
<1>. QED BY <1>1, <1>2, <1>3

-----------------------------------------------------------------------------
(* The decision on a request.                                              *)

\* What a decision says of the request it is on, whatever was asked before it.
AnswerDecided(q, down, a) ==
    \E v :
        /\ VerifyOK(q, down, v) \/ (config.mode = "off" /\ v = NoProof("missing"))
        /\ config.mode = "off" => v = NoProof("missing")
        /\ a.proven = v.who
        /\ a.live = live /\ a.down = down /\ a.keys = keys
        /\ a.acts = Resolve(q, v).acts
        /\ a.header = Header(q, a.acts)
        /\ a.status = IF Resolve(q, v).refused # None THEN Resolve(q, v).refused
                      ELSE IF q.op # "read" /\ a.acts = Nobody THEN "400" ELSE "next"

LEMMA DecideFact ==
    ASSUME NEW q \in Incoming, NEW down \in BOOLEAN
    PROVE  AnswerDecided(q, down, Decide(q, down))
<1>1. CASE config.mode = "off"
  BY <1>1 DEF Decide, AnswerDecided
<1>2. CASE config.mode # "off"
  BY <1>2, VerifyFact DEF Decide, AnswerDecided
<1>. QED BY <1>1, <1>2

\* Whoever a request asserts is nobody, or a person.
LEMMA AssertedFact ==
    ASSUME NEW q \in Incoming
    PROVE  /\ Asserted(q) \in Principal
           /\ Asserted(q) # Nobody => Asserted(q).email \in Users
           /\ Asserted(q) = Nobody \/ Asserted(q).email # None
<1>1. ASSUME NEW x \in Sent
      PROVE  NormalizeEmail(x) \in Users \cup {None}
  BY <1>1 DEF NormalizeEmail, Sent, Spelled
<1>2. q.header \in Sent /\ q.cookie \in Sent
  BY DEF Incoming
<1>. QED BY <1>1, <1>2, IdentityAssumption DEF Asserted, Principal, Nobody

\* How the middleware answers and as whom the handler acts, mode by mode.
AnswerOK(q, v, a) ==
    /\ config.mode # "enforce" =>
         /\ a.status \in {"next", "400"}
         /\ a.acts = IF Asserted(q) = Nobody THEN v.who ELSE Asserted(q)
    /\ config.mode = "enforce" /\ v.error = None => a.acts = v.who /\ a.status = "next"
    /\ config.mode = "enforce" /\ v.error = "missing" =>
         IF InScope(config, q) THEN a.status = "401"
         ELSE a.acts = Asserted(q) /\ a.status = "next"
    /\ config.mode = "enforce" /\ v.error = "invalid" => a.status = "401"
    /\ config.mode = "enforce" /\ v.error = "unavailable" => a.status = "503"
    /\ a.status = "400" => q.op # "read" /\ a.acts = Nobody
    /\ a.status \in {"401", "503"} => a.acts = Nobody
    /\ a.status = "next" /\ q.op # "read" => a.acts # Nobody

\* What Verify finds, and what is made of it.
Outcome(q, down, v, a) ==
    /\ v.error \in {None, "missing", "invalid", "unavailable"}
    /\ v.error # None => v.who = Nobody
    /\ config.mode = "off" => v.error = "missing"
    /\ config.mode # "off" => VerifyOK(q, down, v)
    /\ a.proven = v.who /\ a.live = live /\ a.down = down /\ a.keys = keys
    /\ a.header = Header(q, a.acts)
    /\ AnswerOK(q, v, a)

LEMMA OutcomeFact ==
    ASSUME IdentityTypeOK, NEW q \in Incoming, NEW down \in BOOLEAN
    PROVE  \E v : Outcome(q, down, v, Decide(q, down))
<1>1. PICK a : a = Decide(q, down)
  OBVIOUS
<1>2. PICK v : /\ VerifyOK(q, down, v) \/ (config.mode = "off" /\ v = NoProof("missing"))
               /\ config.mode = "off" => v = NoProof("missing")
               /\ a.proven = v.who /\ a.live = live /\ a.down = down /\ a.keys = keys
               /\ a.acts = Resolve(q, v).acts
               /\ a.header = Header(q, a.acts)
               /\ a.status = IF Resolve(q, v).refused # None THEN Resolve(q, v).refused
                             ELSE IF q.op # "read" /\ a.acts = Nobody THEN "400" ELSE "next"
  BY <1>1, DecideFact DEF AnswerDecided
<1>3. /\ v.error \in {None, "missing", "invalid", "unavailable"}
      /\ v.error # None => v.who = Nobody
      /\ config.mode = "off" => v.error = "missing"
      /\ config.mode = "off" => v.who = Nobody
  BY <1>2, IdentityAssumption DEF VerifyOK, NoProof
<1>4. config.mode \in {"off", "shadow", "enforce"}
  BY DEF IdentityTypeOK, Config
<1>5. AnswerOK(q, v, a)
  <2>1. CASE config.mode = "off"
    <3>1. Resolve(q, v) = Serve(Asserted(q))
      BY <2>1 DEF Resolve
    <3>. QED BY <1>2, <1>3, <2>1, <3>1, IdentityAssumption DEF AnswerOK, Serve
  <2>2. CASE config.mode = "shadow"
    <3>1. Resolve(q, v) = Serve(Or(Asserted(q), v.who))
      BY <2>2 DEF Resolve, Shadow
    <3>. QED BY <1>2, <1>3, <2>2, <3>1, IdentityAssumption DEF AnswerOK, Serve, Or
  <2>3. CASE config.mode = "enforce"
    <3>1. Resolve(q, v) = Enforce(q, v)
      BY <2>3 DEF Resolve
    <3>2. CASE v.error = None
      <4>1. Resolve(q, v) = Serve(v.who)
        BY <3>1, <3>2, IdentityAssumption DEF Enforce
      <4>2. v.who # Nobody
        BY <1>2, <1>3, <2>3, <3>2, IdentityAssumption
        DEF VerifyOK, Verified, Nobody, NoProof, IdentityTypeOK
      <4>. QED BY <1>2, <2>3, <3>2, <4>1, <4>2, IdentityAssumption DEF AnswerOK, Serve
    <3>3. CASE v.error = "missing"
      <4>1. Resolve(q, v) = IF InScope(config, q) THEN Refuse("401") ELSE Serve(Asserted(q))
        BY <3>1, <3>3, IdentityAssumption DEF Enforce
      <4>2. ~InScope(config, q) => q.op = "read"
        BY DEF InScope
      <4>. QED BY <1>2, <2>3, <3>3, <4>1, <4>2, IdentityAssumption DEF AnswerOK, Serve, Refuse
    <3>4. CASE v.error = "invalid"
      <4>1. Resolve(q, v) = Refuse("401")
        BY <3>1, <3>4, IdentityAssumption DEF Enforce
      <4>. QED BY <1>2, <2>3, <3>4, <4>1, IdentityAssumption DEF AnswerOK, Refuse
    <3>5. CASE v.error = "unavailable"
      <4>1. Resolve(q, v) = Refuse("503")
        BY <3>1, <3>5, IdentityAssumption DEF Enforce
      <4>. QED BY <1>2, <2>3, <3>5, <4>1, IdentityAssumption DEF AnswerOK, Refuse
    <3>. QED BY <1>3, <3>2, <3>3, <3>4, <3>5
  <2>. QED BY <1>4, <2>1, <2>2, <2>3
<1>. QED BY <1>1, <1>2, <1>3, <1>5 DEF Outcome

-----------------------------------------------------------------------------
(* The inductive invariant.                                                *)

\* A mint or revocation whose sender came by the proxy bore no token, and acts for the
\* person the proxy named.
SessionTrue ==
    answer # None /\ incoming.op \in {"mint", "revoke"} /\ CanManage(answer.proven) =>
        incoming.bearer = None /\ incoming.jwt \in Users /\ answer.proven.email = incoming.jwt

\* Requests reach only a server that started, and the token handlers only where tokens are
\* enabled; an answer is that of the request under way.
ServerOK ==
    /\ runs = (Accepts(config) /\ Builds(config))
    /\ incoming # None => runs
    /\ incoming # None /\ incoming.op \in {"mint", "revoke"} => config.tokens
    /\ answer # None => incoming # None

AnswerTrue ==
    /\ WritesProven
    /\ NeverDowngraded
    /\ ShadowBlocksNothing
    /\ DeniedForCause
    /\ OneIdentity
    /\ SessionTrue

IdentityInv == IdentityTypeOK /\ ServerOK /\ AnswerTrue

LEMMA IdentityInitInv == IdentityInit => IdentityInv
<1>. SUFFICES ASSUME IdentityInit PROVE IdentityInv
  OBVIOUS
<1>1. IdentityTypeOK /\ ServerOK
  BY DEF IdentityInit, IdentityTypeOK, ServerOK, Accepts, Builds, Config, Configured
<1>2. AnswerTrue
  BY DEF IdentityInit, AnswerTrue, WritesProven, NeverDowngraded, ShadowBlocksNothing,
         DeniedForCause, OneIdentity, SessionTrue, Served
<1>. QED BY <1>1, <1>2 DEF IdentityInv

\* The decision of the middleware is one of its type.
LEMMA DecisionTyped ==
    ASSUME IdentityTypeOK, NEW q \in Incoming, NEW down \in BOOLEAN
    PROVE  Decide(q, down) \in Decision
<1>1. PICK a : a = Decide(q, down)
  OBVIOUS
<1>2. PICK v : Outcome(q, down, v, a)
  BY <1>1, OutcomeFact
<1>3. a = [status |-> a.status, acts |-> a.acts, proven |-> a.proven,
           header |-> a.header, live |-> a.live, down |-> a.down, keys |-> a.keys]
  BY <1>1 DEF Decide
<1>4. v.who \in Principal
  <2>1. CASE v.error # None
    BY <1>2, <2>1 DEF Outcome, Nobody, Principal
  <2>2. CASE v.error = None
    BY <1>2, <2>2, IdentityAssumption DEF Outcome, VerifyOK, Verified, Principal, IdentityTypeOK
  <2>. QED BY <2>1, <2>2
<1>5. a.acts \in Principal /\ a.status \in {"next", "400", "401", "503"}
  <2>2. CASE config.mode # "enforce"
    BY <1>2, <1>4, <2>2, AssertedFact DEF Outcome, AnswerOK
  <2>3. CASE config.mode = "enforce" /\ a.status = "next"
    BY <1>2, <1>4, <2>3, AssertedFact DEF Outcome, AnswerOK
  <2>4. CASE config.mode = "enforce" /\ a.status # "next"
    <3>1. a.status \in {"401", "503"}
      BY <1>2, <2>4 DEF Outcome, AnswerOK
    <3>2. a.acts = Nobody
      BY <1>2, <3>1 DEF Outcome, AnswerOK
    <3>. QED BY <3>1, <3>2 DEF Nobody, Principal
  <2>. QED BY <2>2, <2>3, <2>4
<1>6. a.header \in Sent
  <2>1. a.header = Header(q, a.acts)
    BY <1>2 DEF Outcome
  <2>. QED BY <1>5, <2>1 DEF Header, Sent, Spelled, Incoming, Principal
<1>7. a.proven \in Principal /\ a.live \in SUBSET Users /\ a.down \in BOOLEAN /\ a.keys \in BOOLEAN
  BY <1>2, <1>4 DEF Outcome, IdentityTypeOK
<1>. QED BY <1>1, <1>3, <1>5, <1>6, <1>7 DEF Decision

\* The middleware's answer is true of its request.
LEMMA MiddlewareTrue ==
    ASSUME IdentityInv, Middleware
    PROVE  AnswerTrue'
<1>. USE DEF IdentityInv, IdentityTypeOK, ServerOK
<1>0. PICK q \in Incoming, down \in BOOLEAN : q = incoming /\ answer' = Decide(q, down)
  BY DEF Middleware
<1>1. PICK a : q = incoming /\ a = Decide(q, down) /\ answer' = a
  BY <1>0
<1>2. UNCHANGED <<config, runs, keys, live, incoming>>
  BY DEF Middleware
<1>3. PICK v : Outcome(q, down, v, a)
  BY <1>1, OutcomeFact
<1>4. /\ config' = config /\ live' = live /\ incoming' = q /\ answer' = a
      /\ a.live = live /\ a.down = down /\ a.keys = keys /\ a.proven = v.who
      /\ a.header = Header(q, a.acts) /\ AnswerOK(q, v, a)
      /\ config.mode # "off" => VerifyOK(q, down, v)
      /\ v.error \in {None, "missing", "invalid", "unavailable"}
      /\ v.error # None => v.who = Nobody
      /\ config.mode = "off" => v.error = "missing"
  BY <1>1, <1>2, <1>3 DEF Outcome
<1>5. WritesProven'
  <2>. SUFFICES ASSUME a.status = "next", config.mode = "enforce", q.op # "read"
                PROVE  a.acts.email \in Proves(incoming)'
    BY <1>4 DEF WritesProven, Served
  <2>1. v.error = None /\ a.acts = v.who
    BY <1>4 DEF AnswerOK, InScope
  <2>2. Verified(q, down, v)
    BY <1>4, <2>1 DEF VerifyOK
  <2>. QED BY <1>4, <2>1, <2>2, IdentityAssumption DEF Verified, Proves, HasToken, HasJWT, Configured
<1>6. NeverDowngraded'
  <2>. SUFFICES ASSUME a.status = "next", config.mode = "enforce", HasToken(q) \/ HasJWT(q)
                PROVE  /\ HasToken(q) => ~down /\ a.acts.email = q.bearer
                       /\ HasJWT(q) /\ ~HasToken(q) => keys /\ a.acts.email = q.jwt
    BY <1>4 DEF NeverDowngraded, Served, HasToken, HasJWT, Configured
  <2>1. v.error = None /\ a.acts = v.who
    BY <1>4 DEF AnswerOK, VerifyOK
  <2>2. Verified(q, down, v)
    BY <1>4, <2>1 DEF VerifyOK
  <2>. QED BY <2>1, <2>2 DEF Verified
<1>7. ShadowBlocksNothing'
  <2>1. Asserted(q)' = Asserted(q)
    BY DEF Asserted, NormalizeEmail
  <2>. QED BY <1>4, <2>1 DEF ShadowBlocksNothing, AnswerOK, Served, Asserted, NormalizeEmail
<1>8. DeniedForCause'
  <2>. SUFFICES ASSUME a.status = "401", HasToken(q) \/ HasJWT(q)
                PROVE  /\ HasToken(q) =>
                            \/ q.bearer = "malformed"
                            \/ ~down /\ q.bearer \notin live
                       /\ HasJWT(q) /\ ~HasToken(q) =>
                            \/ q.jwt \notin Users
                            \/ ~keys
    BY <1>4 DEF DeniedForCause, HasToken, HasJWT, Configured
  <2>1. config.mode = "enforce"
    BY <1>4 DEF AnswerOK
  <2>2. VerifyOK(q, down, v)
    BY <1>4, <2>1
  <2>3. v.error = "invalid"
    BY <1>4, <2>1, <2>2, IdentityAssumption DEF AnswerOK, VerifyOK
  <2>. QED BY <2>2, <2>3 DEF VerifyOK
<1>9. OneIdentity'
  <2>. SUFFICES ASSUME a.status = "next", a.acts # Nobody
                PROVE  a.header = [user |-> a.acts.email, lower |-> TRUE]
    BY <1>4 DEF OneIdentity, Served
  <2>1. v.who = Nobody \/ v.who.email \in Users
    BY <1>4, IdentityAssumption DEF VerifyOK, Verified
  <2>2. a.acts.email # None
    BY <1>4, <2>1, AssertedFact, IdentityAssumption DEF AnswerOK
  <2>. QED BY <1>4, <2>2 DEF Header
<1>10. SessionTrue'
  <2>. SUFFICES ASSUME q.op \in {"mint", "revoke"}, v.who.source = "proxy_jwt"
                PROVE  q.bearer = None /\ q.jwt \in Users /\ v.who.email = q.jwt
    BY <1>4 DEF SessionTrue, CanManage
  <2>1. v.who # Nobody
    BY IdentityAssumption DEF Nobody
  <2>2. VerifyOK(q, down, v) /\ v.error = None
    BY <1>4, <2>1, IdentityAssumption
  <2>3. Verified(q, down, v)
    BY <2>2 DEF VerifyOK
  <2>4. ~HasToken(q) /\ q.jwt \in Users /\ v.who.email = q.jwt
    BY <2>3, IdentityAssumption DEF Verified
  <2>5. config.tokens
    BY <1>1, <1>4 DEF Middleware
  <2>. QED BY <2>4, <2>5 DEF HasToken
<1>. QED BY <1>5, <1>6, <1>7, <1>8, <1>9, <1>10 DEF AnswerTrue

\* An answer that stands stays true of its request.
LEMMA AnswerStays ==
    ASSUME AnswerTrue, answer # None, UNCHANGED <<config, incoming, answer>>
    PROVE  AnswerTrue'
<1>1. Asserted(incoming)' = Asserted(incoming) /\ Proves(incoming)' = Proves(incoming)
  BY DEF Asserted, NormalizeEmail, Proves, Configured
<1>. QED
  BY <1>1 DEF AnswerTrue, WritesProven, NeverDowngraded, ShadowBlocksNothing,
              DeniedForCause, OneIdentity, SessionTrue, Served, CanManage,
              HasToken, HasJWT, Configured

LEMMA NoAnswer ==
    ASSUME answer' = None
    PROVE  AnswerTrue'
BY DEF AnswerTrue, WritesProven, NeverDowngraded, ShadowBlocksNothing,
       DeniedForCause, OneIdentity, SessionTrue, Served

LEMMA IdentityNextInv == IdentityInv /\ [IdentityNext]_identityVars => IdentityInv'
<1>. SUFFICES ASSUME IdentityInv, [IdentityNext]_identityVars PROVE IdentityInv'
  OBVIOUS
<1>. USE DEF IdentityInv
<1>1. CASE UNCHANGED identityVars
  <2>1. IdentityTypeOK' /\ ServerOK'
    BY <1>1 DEF identityVars, IdentityTypeOK, ServerOK, Accepts, Builds, Configured
  <2>2. CASE answer = None
    BY <1>1, <2>1, <2>2, NoAnswer DEF identityVars
  <2>3. CASE answer # None
    BY <1>1, <2>1, <2>3, AnswerStays DEF identityVars
  <2>. QED BY <2>2, <2>3
<1>2. ASSUME NEW c \in Config, Deploy(c) PROVE IdentityInv'
  <2>1. IdentityTypeOK' /\ ServerOK'
    BY <1>2 DEF Deploy, IdentityTypeOK, ServerOK, Accepts, Builds, Configured
  <2>. QED BY <1>2, <2>1, NoAnswer DEF Deploy, ServerOK
<1>3. ASSUME NEW q \in Incoming, Arrive(q) PROVE IdentityInv'
  <2>1. IdentityTypeOK' /\ ServerOK'
    BY <1>3 DEF Arrive, IdentityTypeOK, ServerOK, Accepts, Builds, Configured
  <2>. QED BY <1>3, <2>1, NoAnswer DEF Arrive, ServerOK
<1>4. CASE Middleware
  <2>1. IdentityTypeOK'
    BY <1>4, DecisionTyped DEF Middleware, IdentityTypeOK
  <2>2. ServerOK'
    BY <1>4 DEF Middleware, ServerOK, Accepts, Builds, Configured
  <2>. QED BY <1>4, <2>1, <2>2, MiddlewareTrue
<1>5. CASE Handle
  <2>1. live' \in SUBSET Users
    <3>1. CanManage(answer.proven) /\ incoming.op \in {"mint", "revoke"}
            => answer.proven.email \in Users
      BY <1>5 DEF Handle, AnswerTrue, SessionTrue
    <3>2. live' # live => incoming.op \in {"mint", "revoke"} /\ CanManage(answer.proven)
      BY <1>5 DEF Handle, ServerOK, IdentityTypeOK, Incoming
    <3>3. live' \in {live, live \cup {answer.proven.email}, live \ {answer.proven.email}}
      BY <1>5, <3>2 DEF Handle
    <3>. QED BY <3>1, <3>2, <3>3 DEF IdentityTypeOK
  <2>2. IdentityTypeOK' /\ ServerOK'
    BY <1>5, <2>1 DEF Handle, IdentityTypeOK, ServerOK, Accepts, Builds, Configured
  <2>. QED BY <1>5, <2>2, NoAnswer DEF Handle
<1>6. ASSUME NEW u \in Users, Lapse(u) PROVE IdentityInv'
  <2>1. IdentityTypeOK' /\ ServerOK'
    BY <1>6 DEF Lapse, IdentityTypeOK, ServerOK, Accepts, Builds, Configured
  <2>2. CASE answer = None
    BY <1>6, <2>1, <2>2, NoAnswer DEF Lapse
  <2>3. CASE answer # None
    BY <1>6, <2>1, <2>3, AnswerStays DEF Lapse
  <2>. QED BY <2>2, <2>3
<1>7. CASE KeysFetched \/ KeysRotated
  <2>1. keys' \in BOOLEAN /\ UNCHANGED <<config, runs, live, incoming, answer>>
    BY <1>7 DEF KeysFetched, KeysRotated
  <2>2. IdentityTypeOK' /\ ServerOK'
    BY <2>1 DEF IdentityTypeOK, ServerOK, Accepts, Builds, Configured
  <2>3. CASE answer = None
    BY <2>1, <2>2, <2>3, NoAnswer
  <2>4. CASE answer # None
    BY <2>1, <2>2, <2>4, AnswerStays
  <2>. QED BY <2>3, <2>4
<1>. QED BY <1>1, <1>2, <1>3, <1>4, <1>5, <1>6, <1>7 DEF IdentityNext

-----------------------------------------------------------------------------
(* Theorems.                                                               *)

\* The invariant the others rest on: what an answer says of its request.
THEOREM IdentityInvariance == IdentitySpec => []IdentityInv
BY IdentityInitInv, IdentityNextInv, PTL DEF IdentitySpec

\* When writes are enforced, a handler acts only as someone the credentials prove.
THEOREM WritesSafe == IdentitySpec => []WritesProven
<1>1. IdentityInv => WritesProven
  BY DEF IdentityInv, AnswerTrue
<1>. QED BY IdentityInvariance, <1>1, PTL

\* A credential that fails is never made up for, in any accepted configuration.
THEOREM NoDowngrade == IdentitySpec => []NeverDowngraded
<1>1. IdentityInv => NeverDowngraded
  BY DEF IdentityInv, AnswerTrue
<1>. QED BY IdentityInvariance, <1>1, PTL

\* Shadow serves whom the off mode would, as the same person.
THEOREM ShadowHarmless == IdentitySpec => []ShadowBlocksNothing
<1>1. IdentityInv => ShadowBlocksNothing
  BY DEF IdentityInv, AnswerTrue
<1>. QED BY IdentityInvariance, <1>1, PTL

\* What is accepted starts, a credential is refused only for its cause (which for an
\* assertion may be a key that could not be had), and the header names who acts.
THEOREM AnswersCoherent == IdentitySpec => []Coherent
<1>1. ServerOK => AcceptedStarts
  BY DEF ServerOK, AcceptedStarts, Accepts, Builds
<1>2. IdentityInv => Coherent
  BY <1>1 DEF IdentityInv, AnswerTrue, Coherent
<1>. QED BY IdentityInvariance, <1>2, PTL

\* Only a session with the proxy mints a token, for the person the proxy named.
THEOREM MintsBySession == IdentitySpec => MintedBySession
<1>1. IdentityInv /\ [IdentityNext]_identityVars =>
        [live' \ live # {} => /\ incoming.op = "mint" /\ incoming.bearer = None
                              /\ live' \ live = {incoming.jwt}]_identityVars
  <2>. SUFFICES ASSUME IdentityInv, [IdentityNext]_identityVars, live' \ live # {}
                PROVE  /\ incoming.op = "mint" /\ incoming.bearer = None
                       /\ live' \ live = {incoming.jwt}
    OBVIOUS
  <2>1. Handle
    BY DEF IdentityNext, identityVars, Deploy, Arrive, Middleware, Lapse, KeysFetched, KeysRotated
  <2>2. /\ incoming.op = "mint" /\ CanManage(answer.proven)
        /\ live' = live \cup {answer.proven.email}
    BY <2>1 DEF Handle, IdentityInv, IdentityTypeOK, ServerOK, Incoming
  <2>3. incoming.bearer = None /\ answer.proven.email = incoming.jwt
    BY <2>1, <2>2 DEF Handle, IdentityInv, AnswerTrue, SessionTrue
  <2>. QED BY <2>2, <2>3
<1>. QED BY IdentityInvariance, <1>1, PTL DEF IdentitySpec, MintedBySession

=============================================================================
