---------------------------- MODULE UploadsProofs ----------------------------
(***************************************************************************)
(* Proofs about Uploads: type correctness, that a create by itself         *)
(* replaces nothing, and that an update based on a version asked for and   *)
(* read replaces no content its client has not seen, whoever else uploads  *)
(* and deletes.                                                            *)
(***************************************************************************)
EXTENDS Uploads, TLAPS

(* A request that has met no other is the only one there is, and what       *)
(* HeadObject told it is still true when it stores, or it has stored.       *)
LoneAlone ==
    \A c \in Clients : req[c] # None /\ req[c].lone =>
        /\ \A d \in Clients : d # c => req[d] = None
        /\ req[c].mode = "create" /\ req[c].step = "put" =>
              object[req[c].slug] \in {None, req[c].content}

(* Whatever is in the store, held or sent as if_match has been stored.      *)
VersionsStored ==
    /\ \A s \in Slugs : object[s] # None => object[s] \in stored
    /\ \A c \in Clients, s \in Slugs : held[c][s] # None => held[c][s] \in stored
    /\ \A c \in Clients : req[c] # None /\ req[c].ifMatch # None => req[c].ifMatch \in stored

(* What a client holds after reading the content, and what it sent of that  *)
(* as if_match, is of a content it has seen or one stored more than once,   *)
(* whenever that content is there.                                          *)
HeldSeen ==
    \A c \in Clients, s \in Slugs :
        basis[c][s] = "read" /\ object[s] # None /\ object[s] = held[c][s] =>
            object[s] \in seen[c] \cup again

MatchSeen ==
    \A c \in Clients :
        /\ req[c] # None
        /\ req[c].mode = "match"
        /\ req[c].basis = "read"
        /\ object[req[c].slug] = req[c].ifMatch
        => req[c].ifMatch \in seen[c] \cup again

(* Only a create asks whether its slug is free, a delete stores nothing, and *)
(* a conditional update is one that sends a version it learnt.               *)
Fits(q) ==
    /\ q.step = "head" => q.mode = "create"
    /\ q.step = "put" => q.mode # "delete" /\ q.content \in Contents
    /\ q.step = "head" => q.content \in Contents
    /\ q.mode = "match" <=> q.ifMatch # None
    /\ q.mode = "match" => q.basis \in {"read", "reply"}

StepsFit == \A c \in Clients : req[c] # None => Fits(req[c])

LoneInv == TypeOK /\ StepsFit /\ LoneAlone

SeenInv == VersionsStored /\ HeldSeen /\ MatchSeen

-----------------------------------------------------------------------------
(* What the steps do to the requests and to the store.                     *)

(* A request that starts is as asked for, alone only if there are no        *)
(* others; the others are alone no more and otherwise what they were.       *)
LEMMA StartsParts ==
    ASSUME NEW c \in Clients, NEW q \in Request, TypeOK, Starts(c, q)
    PROVE  /\ req' = [d \in Clients |-> req'[d]]
           /\ \E n \in Request :
                 /\ req'[c] = n /\ (n.lone => \A d \in Clients : req[d] = None)
                 /\ n.step = q.step /\ n.mode = q.mode /\ n.slug = q.slug
                 /\ n.content = q.content /\ n.ifMatch = q.ifMatch /\ n.basis = q.basis
           /\ \A d \in Clients : d # c /\ req[d] = None => req'[d] = None
           /\ \A d \in Clients : d # c /\ req[d] # None =>
                 /\ req'[d] \in Request /\ ~req'[d].lone
                 /\ req'[d].step = req[d].step /\ req'[d].mode = req[d].mode
                 /\ req'[d].slug = req[d].slug /\ req'[d].content = req[d].content
                 /\ req'[d].ifMatch = req[d].ifMatch /\ req'[d].basis = req[d].basis
<1>1. PICK alone \in BOOLEAN : alone = (\A e \in Clients : req[e] = None)
  OBVIOUS
<1>2. ASSUME NEW o \in Request, NEW b \in BOOLEAN
      PROVE  /\ [o EXCEPT !.lone = b] \in Request
             /\ [o EXCEPT !.lone = b].lone = b
             /\ [o EXCEPT !.lone = b].step = o.step
             /\ [o EXCEPT !.lone = b].mode = o.mode
             /\ [o EXCEPT !.lone = b].slug = o.slug
             /\ [o EXCEPT !.lone = b].content = o.content
             /\ [o EXCEPT !.lone = b].ifMatch = o.ifMatch
             /\ [o EXCEPT !.lone = b].basis = o.basis
  BY DEF Request
<1>3. PICK n \in Request : n = [q EXCEPT !.lone = alone]
  BY <1>2
<1>4. /\ n.step = q.step /\ n.mode = q.mode /\ n.slug = q.slug
      /\ n.content = q.content /\ n.ifMatch = q.ifMatch /\ n.basis = q.basis
      /\ n.lone = alone
  BY <1>2, <1>3
<1>5. req'[c] = n /\ req' = [d \in Clients |-> req'[d]]
  BY <1>1, <1>3 DEF Starts
<1>6. ASSUME NEW d \in Clients, d # c, req[d] # None
      PROVE  /\ req'[d] \in Request /\ ~req'[d].lone
             /\ req'[d].step = req[d].step /\ req'[d].mode = req[d].mode
             /\ req'[d].slug = req[d].slug /\ req'[d].content = req[d].content
             /\ req'[d].ifMatch = req[d].ifMatch /\ req'[d].basis = req[d].basis
  <2>1. PICK o \in Request : o = req[d]
    BY <1>6 DEF TypeOK
  <2>2. req'[d] = [o EXCEPT !.lone = FALSE]
    BY <1>6, <2>1 DEF Starts
  <2>. QED BY <2>1, <2>2, <1>2
<1>7. \A d \in Clients : d # c /\ req[d] = None => req'[d] = None
  BY DEF Starts
<1>. QED BY <1>1, <1>4, <1>5, <1>6, <1>7

LEMMA StartsFact ==
    ASSUME NEW c \in Clients, NEW q \in Request, Fits(q), q.mode = "create" => q.step # "put",
           LoneInv, Starts(c, q), object' = object
    PROVE  /\ req' \in [Clients -> Request \cup {None}]
           /\ StepsFit'
           /\ LoneAlone'
<1>0. TypeOK
  BY DEF LoneInv
<1>1. PICK n \in Request :
        /\ req'[c] = n /\ (n.lone => \A d \in Clients : req[d] = None)
        /\ n.step = q.step /\ n.mode = q.mode /\ n.content = q.content
        /\ n.ifMatch = q.ifMatch /\ n.basis = q.basis
  BY <1>0, StartsParts
<1>2. ASSUME NEW d \in Clients, d # c
      PROVE  \/ req'[d] = None
             \/ /\ req[d] # None /\ req'[d] \in Request /\ ~req'[d].lone
                /\ req'[d].step = req[d].step /\ req'[d].mode = req[d].mode
                /\ req'[d].content = req[d].content
                /\ req'[d].ifMatch = req[d].ifMatch /\ req'[d].basis = req[d].basis
  BY <1>0, <1>2, StartsParts
<1>3. \A d \in Clients : d # c /\ req[d] = None => req'[d] = None
  BY <1>0, StartsParts
<1>4. req' \in [Clients -> Request \cup {None}]
  BY <1>0, <1>1, <1>2, StartsParts
<1>5. StepsFit'
  <2>. SUFFICES ASSUME NEW d \in Clients, req'[d] # None PROVE Fits(req'[d])
    BY DEF StepsFit, Fits
  <2>1. CASE d = c
    BY <2>1, <1>1 DEF Fits
  <2>2. CASE d # c
    BY <2>2, <1>2 DEF LoneInv, StepsFit, Fits
  <2>. QED BY <2>1, <2>2
<1>6. LoneAlone'
  <2>. SUFFICES ASSUME NEW d \in Clients, req'[d] # None, req'[d].lone
                PROVE  /\ \A e \in Clients : e # d => req'[e] = None
                       /\ ~(req'[d].mode = "create" /\ req'[d].step = "put")
    BY DEF LoneAlone
  <2>1. d = c
    BY <1>2
  <2>. QED BY <2>1, <1>1, <1>3
<1>. QED BY <1>4, <1>5, <1>6

(* A request goes on as what it was, and stores after it found its slug     *)
(* free, or is no longer alone.                                             *)
Goes(q, n) ==
    /\ n.mode = q.mode
    /\ n.ifMatch = q.ifMatch
    /\ n.basis = q.basis
    /\ n.content = q.content
    /\ n.lone => q.lone
    /\ q.mode = "match" => n.slug = q.slug
    /\ n.step \in {"head", "put"} => q.step \in {"head", "put"}
    /\ n.step = "head" => q.step = "head"
    /\ n.lone /\ n.step = "put" =>
          /\ n.slug = q.slug
          /\ q.step = "put" \/ object[q.slug] = None

LEMMA GotoGoes ==
    ASSUME TypeOK, NEW c \in Clients, req[c] # None,
           NEW step \in {"reply", "conflict", "remove"}, Goto(c, step)
    PROVE  \E n \in Request : req' = [req EXCEPT ![c] = n] /\ Goes(req[c], n)
<1>1. PICK q \in Request : q = req[c]
  BY DEF TypeOK
<1>2. PICK n \in Request : n = [q EXCEPT !.step = step]
  BY DEF Request
<1>3. Goes(q, n)
  BY <1>2 DEF Goes, Request
<1>. QED BY <1>1, <1>2, <1>3 DEF Goto

LEMMA StoresGoes ==
    ASSUME TypeOK, NEW c \in Clients, req[c] # None, req[c].step = "head",
           NEW alone \in BOOLEAN, Stores(c, alone),
           alone => req[c].lone /\ object[req[c].slug] = None
    PROVE  \E n \in Request : req' = [req EXCEPT ![c] = n] /\ Goes(req[c], n)
<1>1. PICK q \in Request : q = req[c]
  BY DEF TypeOK
<1>2. PICK n \in Request : n = [q EXCEPT !.step = "put", !.redraws = 0, !.lone = alone]
  <2>1. PICK zero \in 0..MaxRetries : zero = 0
    BY UploadsAssumption
  <2>2. [q EXCEPT !.step = "put", !.redraws = zero, !.lone = alone] \in Request
    BY DEF Request
  <2>. QED BY <2>1, <2>2
<1>3. Goes(q, n)
  BY <1>1, <1>2 DEF Goes, Request
<1>4. req' = [req EXCEPT ![c] = n]
  BY <1>1, <1>2 DEF Stores
<1>. QED BY <1>1, <1>3, <1>4

LEMMA ServeGoes ==
    ASSUME LoneInv, NEW c \in Clients, Serve(c) \/ PutResent(c)
    PROVE  /\ req[c] # None /\ req[c] \in Request
           /\ \E n \in Request \cup {None} :
                 /\ req' = [req EXCEPT ![c] = n]
                 /\ n # None => Goes(req[c], n)
<1>0. /\ req \in [Clients -> Request \cup {None}] /\ None \notin Request /\ TypeOK
      /\ req[c] # None => req[c] \in Request /\ Fits(req[c])
  BY UploadRequestAssumption DEF LoneInv, TypeOK, StepsFit
<1>1. req[c] # None
  BY DEF Serve, HeadFree, HeadTaken, HeadFault, Put, PutResent, PutRefused, PutFails, Reply,
         Conflict, Find, Remove, At
<1>2. CASE End(c)
  BY <1>0, <1>1, <1>2 DEF End
<1>3. ASSUME NEW step \in {"reply", "conflict", "remove"}, Goto(c, step)
      PROVE  \E n \in Request : req' = [req EXCEPT ![c] = n] /\ Goes(req[c], n)
  BY <1>0, <1>1, <1>3, GotoGoes
<1>4. CASE HeadFree(c)
  <2>1. /\ req[c].step = "head" /\ object[req[c].slug] = None
        /\ Stores(c, req[c].lone) /\ req[c].lone \in BOOLEAN
    BY <1>0, <1>1, <1>4 DEF HeadFree, At, Request
  <2>. QED BY <1>0, <1>1, <2>1, StoresGoes
<1>5. CASE HeadTaken(c) /\ ~End(c)
  <2>1. PICK q \in Request : q = req[c] /\ q.step = "head" /\ q.mode = "create"
    BY <1>0, <1>1, <1>5 DEF HeadTaken, At, Fits
  <2>2. PICK s \in Slugs : req' = [req EXCEPT ![c].slug = s, ![c].redraws = @ - 1]
    BY <1>5 DEF HeadTaken
  <2>3. q.redraws > 0 /\ q.redraws - 1 \in 0..MaxRetries
    BY <1>5, <2>1, UploadsAssumption DEF HeadTaken, Request
  <2>4. PICK n \in Request : n = [q EXCEPT !.slug = s, !.redraws = q.redraws - 1]
    BY <2>3 DEF Request
  <2>5. Goes(q, n)
    BY <2>1, <2>4 DEF Goes, Request
  <2>6. req' = [req EXCEPT ![c] = n]
    BY <2>1, <2>2, <2>4
  <2>. QED BY <1>0, <1>1, <2>1, <2>5, <2>6
<1>6. CASE HeadFault(c) /\ ~End(c)
  <2>1. req[c].step = "head" /\ Stores(c, FALSE)
    BY <1>6 DEF HeadFault, At
  <2>. QED BY <1>0, <1>1, <2>1, StoresGoes
<1>7. CASE Put(c)
  BY <1>0, <1>1, <1>3, <1>7 DEF Put
<1>8. CASE PutRefused(c)
  BY <1>0, <1>1, <1>3, <1>8 DEF PutRefused
<1>9. CASE Find(c) /\ ~End(c)
  BY <1>0, <1>1, <1>3, <1>9 DEF Find
<1>10. CASE PutResent(c)
  <2>1. req' = [req EXCEPT ![c] = req[c]] /\ req[c].step = "put"
    BY <1>0, <1>10 DEF PutResent, At
  <2>. QED BY <1>0, <1>1, <2>1 DEF Goes
<1>. QED BY <1>2, <1>4, <1>5, <1>6, <1>7, <1>8, <1>9, <1>10
         DEF Serve, PutFails, Reply, Conflict, Remove

(* What a handler's step does to the store: the put of the content, a       *)
(* removal, or nothing.                                                     *)
LEMMA ServeStore ==
    ASSUME LoneInv, NEW c \in Clients, Serve(c) \/ PutResent(c)
    PROVE  \/ /\ At(c, "put") /\ MayPut(req[c], object[req[c].slug]) /\ Stored(req[c])
              /\ Put(c) \/ PutResent(c) \/ PutFails(c)
           \/ /\ At(c, "remove") /\ \A s \in Slugs : object'[s] \in {object[s], None}
              /\ object' \in [Slugs -> Version] /\ UNCHANGED <<stored, again>>
           \/ UNCHANGED store
<1>0. object \in [Slugs -> Version]
  BY DEF LoneInv, TypeOK
<1>1. CASE Put(c) \/ PutResent(c) \/ PutFails(c)
  BY <1>1 DEF Put, PutResent, PutFails, store
<1>2. CASE Remove(c)
  BY <1>0, <1>2 DEF Remove, Version
<1>3. CASE HeadFree(c) \/ HeadTaken(c) \/ HeadFault(c) \/ PutRefused(c) \/ Reply(c) \/ Conflict(c) \/ Find(c)
  BY <1>3 DEF HeadFree, HeadTaken, HeadFault, PutRefused, Reply, Conflict, Find
<1>. QED BY <1>1, <1>2, <1>3 DEF Serve

(* And to what the client knows: nothing, but for the version it is         *)
(* answered with.                                                           *)
LEMMA ServeClient ==
    ASSUME LoneInv, NEW c \in Clients, Serve(c) \/ PutResent(c)
    PROVE  \/ UNCHANGED client
           \/ /\ UNCHANGED <<store, sent, seen>> /\ req[c].slug \in Slugs
              /\ \E v \in {object[req[c].slug], None}, how \in {"asked", "reply"} :
                    Learns(c, req[c].slug, v, how)
<1>1. CASE Reply(c) \/ Conflict(c)
  <2>1. req[c].slug \in Slugs
    BY <1>1, UploadRequestAssumption DEF Reply, Conflict, At, LoneInv, TypeOK, Request
  <2>. QED BY <1>1, <2>1 DEF Reply, Conflict
<1>2. CASE ~(Reply(c) \/ Conflict(c))
  BY <1>2 DEF Serve, HeadFree, HeadTaken, HeadFault, Put, PutResent, PutRefused, PutFails,
              Find, Remove, client
<1>. QED BY <1>1, <1>2

LEMMA LearnsParts ==
    ASSUME TypeOK, NEW c \in Clients, NEW s \in Slugs, NEW v \in Version,
           NEW how \in {"asked", "reply"}, Learns(c, s, v, how)
    PROVE  /\ held' \in [Clients -> [Slugs -> Version]]
           /\ basis' \in [Clients -> [Slugs -> Basis]]
           /\ \A d \in Clients, t \in Slugs :
                 \/ held'[d][t] = held[d][t] /\ basis'[d][t] = basis[d][t]
                 \/ held'[d][t] = v /\ basis'[d][t] # "read"
BY DEF Learns, TypeOK, Basis

-----------------------------------------------------------------------------
(* Type correctness and lone requests.                                     *)

LEMMA InitLone == Init => LoneInv
BY UploadsAssumption DEF Init, LoneInv, TypeOK, StepsFit, LoneAlone, Version, Basis

LEMMA SendsType ==
    ASSUME TypeOK, NEW c \in Clients, NEW x \in Contents, Sends(c, x)
    PROVE  /\ sent' \in 0..MaxUploads
           /\ seen' \in [Clients -> SUBSET Contents]
           /\ \A d \in Clients : seen[d] \subseteq seen'[d]
BY UploadsAssumption DEF Sends, Sees, TypeOK

LEMMA AskLone ==
    ASSUME NEW c \in Clients, LoneInv, Ask(c) PROVE LoneInv'
<1>0. TypeOK
  BY DEF LoneInv
<1>1. PICK s \in Slugs :
        \/ GetVersion(c, s) \/ GetRaw(c, s) \/ StartDelete(c, s)
        \/ \E x \in Contents :
              StartCreate(c, s, x) \/ StartOverwrite(c, s, x) \/ StartMatch(c, s, x)
  BY DEF Ask
<1>2. CASE GetVersion(c, s)
  <2>1. object[s] \in Version
    BY <1>0 DEF TypeOK
  <2>. QED BY <1>0, <1>2, <2>1, LearnsParts
          DEF GetVersion, store, LoneInv, TypeOK, StepsFit, LoneAlone
<1>3. CASE GetRaw(c, s)
  BY <1>3 DEF GetRaw, Sees, store, LoneInv, TypeOK, StepsFit, LoneAlone, Version, Basis
<1>4. CASE StartDelete(c, s)
  <2>. DEFINE q == Upload("find", "delete", s, None, None, "asked", 0)
  <2>1. q \in Request /\ Fits(q) /\ q.mode = "delete"
    BY UploadsAssumption DEF Upload, Request, Version, Basis, Fits
  <2>. QED BY <1>4, <2>1, StartsFact DEF StartDelete, store, LoneInv, TypeOK, client
<1>5. ASSUME NEW x \in Contents, StartCreate(c, s, x) PROVE LoneInv'
  <2>0. PICK redraws \in {0, MaxRetries} :
          Starts(c, Upload("head", "create", s, x, None, "asked", redraws))
    BY <1>5 DEF StartCreate
  <2>. DEFINE q == Upload("head", "create", s, x, None, "asked", redraws)
  <2>1. q \in Request /\ Fits(q) /\ q.step = "head"
    BY UploadsAssumption DEF Upload, Request, Version, Basis, Fits
  <2>. QED BY <1>0, <1>5, <2>0, <2>1, StartsFact, SendsType
          DEF StartCreate, store, LoneInv, TypeOK
<1>6. ASSUME NEW x \in Contents, StartOverwrite(c, s, x) PROVE LoneInv'
  <2>. DEFINE q == Upload("put", "overwrite", s, x, None, "asked", 0)
  <2>1. q \in Request /\ Fits(q) /\ q.mode = "overwrite"
    BY UploadsAssumption DEF Upload, Request, Version, Basis, Fits
  <2>. QED BY <1>0, <1>6, <2>1, StartsFact, SendsType
          DEF StartOverwrite, store, LoneInv, TypeOK
<1>7. ASSUME NEW x \in Contents, StartMatch(c, s, x) PROVE LoneInv'
  <2>0. /\ held[c][s] \in Version /\ held[c][s] # None
        /\ basis[c][s] \in Basis /\ basis[c][s] # "asked"
    BY <1>0, <1>7 DEF StartMatch, TypeOK
  <2>. DEFINE q == Upload("put", "match", s, x, held[c][s], basis[c][s], 0)
  <2>1. q \in Request /\ Fits(q) /\ q.mode = "match"
    BY <2>0, UploadsAssumption DEF Upload, Request, Version, Basis, Fits
  <2>. QED BY <1>0, <1>7, <2>1, StartsFact, SendsType
          DEF StartMatch, store, LoneInv, TypeOK
<1>. QED BY <1>1, <1>2, <1>3, <1>4, <1>5, <1>6, <1>7

LEMMA ServeLone ==
    ASSUME NEW c \in Clients, LoneInv, Serve(c) \/ PutResent(c) PROVE LoneInv'
<1>0. /\ TypeOK /\ StepsFit /\ LoneAlone
      /\ req \in [Clients -> Request \cup {None}] /\ object \in [Slugs -> Version]
      /\ None \notin Request
  BY UploadRequestAssumption DEF LoneInv, TypeOK
<1>1. req[c] # None /\ req[c] \in Request /\ Fits(req[c])
  BY <1>0, ServeGoes DEF StepsFit
<1>2. PICK n \in Request \cup {None} :
        req' = [req EXCEPT ![c] = n] /\ (n # None => Goes(req[c], n))
  BY ServeGoes
<1>3. object' \in [Slugs -> Version] /\ stored' \subseteq Contents /\ again' \subseteq stored'
  <2>1. CASE At(c, "put") /\ Stored(req[c])
    <3>1. req[c].content \in Contents /\ req[c].slug \in Slugs
      BY <1>1, <2>1 DEF At, Fits, Request
    <3>. QED BY <1>0, <2>1, <3>1 DEF Stored, TypeOK, Version
  <2>2. CASE object' \in [Slugs -> Version] /\ UNCHANGED <<stored, again>>
    BY <1>0, <2>2 DEF TypeOK
  <2>3. CASE UNCHANGED store
    BY <1>0, <2>3 DEF TypeOK, store
  <2>. QED BY <2>1, <2>2, <2>3, ServeStore
<1>4. /\ held' \in [Clients -> [Slugs -> Version]] /\ basis' \in [Clients -> [Slugs -> Basis]]
      /\ sent' \in 0..MaxUploads /\ seen' \in [Clients -> SUBSET Contents]
  <2>1. CASE UNCHANGED client
    BY <1>0, <2>1 DEF TypeOK, client
  <2>2. CASE ~UNCHANGED client
    <3>1. /\ UNCHANGED <<sent, seen>> /\ req[c].slug \in Slugs
          /\ \E v \in {object[req[c].slug], None}, how \in {"asked", "reply"} :
                Learns(c, req[c].slug, v, how)
      BY <2>2, ServeClient
    <3>2. PICK v \in Version, how \in {"asked", "reply"} : Learns(c, req[c].slug, v, how)
      BY <1>0, <3>1 DEF Version
    <3>. QED BY <1>0, <3>1, <3>2, LearnsParts DEF TypeOK
  <2>. QED BY <2>1, <2>2
<1>5. TypeOK'
  BY <1>0, <1>2, <1>3, <1>4 DEF TypeOK
<1>6. StepsFit'
  <2>. SUFFICES ASSUME NEW d \in Clients, req'[d] # None PROVE Fits(req'[d])
    BY DEF StepsFit, Fits
  <2>1. CASE d = c
    <3>1. req'[d] = n /\ Goes(req[c], n)
      BY <1>0, <1>2, <2>1
    <3>2. Fits(n)
      BY <1>1, <3>1 DEF Goes, Fits
    <3>. QED BY <3>1, <3>2
  <2>2. CASE d # c
    BY <1>0, <1>2, <2>2 DEF StepsFit
  <2>. QED BY <2>1, <2>2
<1>7. LoneAlone'
  <2>. SUFFICES ASSUME NEW d \in Clients, req'[d] # None, req'[d].lone
                PROVE  /\ \A e \in Clients : e # d => req'[e] = None
                       /\ req'[d].mode = "create" /\ req'[d].step = "put" =>
                             object'[req'[d].slug] \in {None, req'[d].content}
    BY DEF LoneAlone
  <2>1. d = c
    <3>. SUFFICES ASSUME d # c PROVE FALSE
      OBVIOUS
    <3>1. req[d] # None /\ req[d].lone
      BY <1>0, <1>2
    <3>. QED BY <1>0, <1>1, <3>1 DEF LoneAlone
  <2>2. req'[d] = n /\ n # None /\ Goes(req[c], n) /\ req[c].lone
    BY <1>0, <1>2, <2>1 DEF Goes
  <2>3. \A e \in Clients : e # d => req'[e] = None
    BY <1>0, <1>1, <1>2, <2>1, <2>2 DEF LoneAlone
  <2>4. ASSUME n.mode = "create", n.step = "put"
        PROVE  object'[n.slug] \in {None, n.content}
    <3>1. /\ n.slug = req[c].slug /\ n.content = req[c].content /\ req[c].mode = "create"
          /\ req[c].step = "put" \/ object[req[c].slug] = None
          /\ req[c].slug \in Slugs
      BY <1>1, <2>2, <2>4 DEF Goes, Request
    <3>2. object[req[c].slug] \in {None, req[c].content}
      BY <1>0, <1>1, <2>2, <3>1 DEF LoneAlone
    <3>3. CASE Stored(req[c])
      BY <1>0, <3>1, <3>3 DEF Stored
    <3>4. CASE \A s \in Slugs : object'[s] \in {object[s], None}
      BY <3>1, <3>2, <3>4
    <3>. QED BY <3>3, <3>4, <3>1, ServeStore DEF store
  <2>. QED BY <2>2, <2>3, <2>4
<1>. QED BY <1>5, <1>6, <1>7 DEF LoneInv

LEMMA NextLone == LoneInv /\ [Next]_vars => LoneInv'
<1>. SUFFICES ASSUME LoneInv, [Next]_vars PROVE LoneInv'
  OBVIOUS
<1>1. CASE Restart
  BY <1>1 DEF Restart, client, store, LoneInv, TypeOK, StepsFit, LoneAlone
<1>2. CASE UNCHANGED vars
  BY <1>2 DEF vars, client, store, LoneInv, TypeOK, StepsFit, LoneAlone
<1>. QED BY <1>1, <1>2, AskLone, ServeLone DEF Next

LEMMA LoneAlways == Spec => []LoneInv
BY InitLone, NextLone, PTL DEF Spec

-----------------------------------------------------------------------------
(* What clients that read before they update have seen.                    *)

LEMMA InitSeen == Init => SeenInv
BY DEF Init, SeenInv, VersionsStored, HeldSeen, MatchSeen

(* Request d ends, or goes on with the version and the slug it had.         *)
Onward(d) ==
    req'[d] # None =>
        /\ req[d] # None
        /\ req'[d].mode = req[d].mode
        /\ req'[d].ifMatch = req[d].ifMatch
        /\ req'[d].basis = req[d].basis
        /\ req[d].mode = "match" => req'[d].slug = req[d].slug

LEMMA StartsOnward ==
    ASSUME NEW c \in Clients, NEW q \in Request, TypeOK, Starts(c, q), NEW d \in Clients, d # c
    PROVE  Onward(d)
BY StartsParts DEF Onward

LEMMA ServeOnward ==
    ASSUME LoneInv, NEW c \in Clients, Serve(c) \/ PutResent(c), NEW d \in Clients
    PROVE  Onward(d)
<1>1. PICK n \in Request \cup {None} :
        req' = [req EXCEPT ![c] = n] /\ (n # None => Goes(req[c], n)) /\ req[c] # None
  BY ServeGoes
<1>2. req \in [Clients -> Request \cup {None}]
  BY DEF LoneInv, TypeOK
<1>. QED BY <1>1, <1>2 DEF Onward, Goes

(* The store loses objects at most, and clients come to know more.          *)
LEMMA KnownKept ==
    ASSUME LoneInv, SeenInv, \A d \in Clients : Onward(d),
           \A s \in Slugs : object'[s] \in {object[s], None},
           stored' = stored, again' = again,
           \A d \in Clients : seen[d] \subseteq seen'[d]
    PROVE  /\ \A s \in Slugs : object'[s] # None => object'[s] \in stored'
           /\ \A d \in Clients : req'[d] # None /\ req'[d].ifMatch # None =>
                 req'[d].ifMatch \in stored'
           /\ MatchSeen'
<1>1. \A s \in Slugs : object'[s] # None => object'[s] \in stored'
  BY DEF SeenInv, VersionsStored
<1>2. \A d \in Clients : req'[d] # None /\ req'[d].ifMatch # None => req'[d].ifMatch \in stored'
  BY DEF SeenInv, VersionsStored, Onward
<1>3. MatchSeen'
  <2>. SUFFICES ASSUME NEW d \in Clients, req'[d] # None, req'[d].mode = "match",
                       req'[d].basis = "read", object'[req'[d].slug] = req'[d].ifMatch
                PROVE  req'[d].ifMatch \in seen'[d] \cup again'
    BY DEF MatchSeen
  <2>1. /\ req[d] # None /\ req[d].mode = "match" /\ req[d].basis = "read"
        /\ req'[d].slug = req[d].slug /\ req'[d].ifMatch = req[d].ifMatch
    BY DEF Onward
  <2>2. req[d].slug \in Slugs /\ req[d].ifMatch # None
    BY <2>1 DEF LoneInv, TypeOK, Request, StepsFit, Fits
  <2>3. object[req[d].slug] = req[d].ifMatch
    BY <2>1, <2>2
  <2>. QED BY <2>1, <2>3 DEF SeenInv, MatchSeen
<1>. QED BY <1>1, <1>2, <1>3

(* A put: a content that nobody held before, or one stored again.           *)
LEMMA StoredSeen ==
    ASSUME LoneInv, SeenInv, \A d \in Clients : Onward(d), UNCHANGED client,
           NEW q \in Request, q.content \in Contents, Stored(q)
    PROVE  SeenInv'
<1>. DEFINE x == q.content
            t == q.slug
<1>0. /\ object' = [object EXCEPT ![t] = x] /\ object \in [Slugs -> Version] /\ t \in Slugs
      /\ stored' = stored \cup {x} /\ again' = again \cup ({x} \cap stored)
      /\ x # None
  BY UploadsAssumption DEF Stored, LoneInv, TypeOK, Request
<1>. HIDE DEF x, t
<1>1. \A s \in Slugs : object'[s] = object[s] \/ object'[s] = x
  BY <1>0
<1>2. x \in stored => x \in again'
  BY <1>0
<1>3. again \subseteq again' /\ stored \subseteq stored' /\ x \in stored'
  BY <1>0
<1>4. VersionsStored'
  BY <1>1, <1>3 DEF SeenInv, VersionsStored, Onward, client
<1>5. HeldSeen'
  <2>. SUFFICES ASSUME NEW d \in Clients, NEW s \in Slugs, basis[d][s] = "read",
                       object'[s] # None, object'[s] = held[d][s]
                PROVE  object'[s] \in seen[d] \cup again'
    BY DEF HeldSeen, client
  <2>1. CASE object'[s] = x
    BY <2>1, <1>2 DEF SeenInv, VersionsStored
  <2>2. CASE object'[s] = object[s]
    BY <2>2, <1>3 DEF SeenInv, HeldSeen
  <2>. QED BY <2>1, <2>2, <1>1
<1>6. MatchSeen'
  <2>. SUFFICES ASSUME NEW d \in Clients, req'[d] # None, req'[d].mode = "match",
                       req'[d].basis = "read", object'[req'[d].slug] = req'[d].ifMatch
                PROVE  req'[d].ifMatch \in seen[d] \cup again'
    BY DEF MatchSeen, client
  <2>1. /\ req[d] # None /\ req[d].mode = "match" /\ req[d].basis = "read"
        /\ req'[d].slug = req[d].slug /\ req'[d].ifMatch = req[d].ifMatch
    BY DEF Onward
  <2>2. req[d].slug \in Slugs /\ req[d].ifMatch # None /\ req[d].ifMatch \in stored
    BY <2>1 DEF LoneInv, TypeOK, Request, StepsFit, Fits, SeenInv, VersionsStored
  <2>3. CASE req[d].ifMatch = x
    BY <2>1, <2>2, <2>3, <1>2
  <2>4. CASE req[d].ifMatch # x
    BY <1>1, <1>3, <2>1, <2>2, <2>4 DEF SeenInv, MatchSeen
  <2>. QED BY <2>3, <2>4
<1>. QED BY <1>4, <1>5, <1>6 DEF SeenInv

(* Learning a version without reading the content.                          *)
LEMMA LearnsSeen ==
    ASSUME LoneInv, SeenInv, \A d \in Clients : Onward(d), UNCHANGED store, seen' = seen,
           NEW c \in Clients, NEW s \in Slugs, NEW v \in {object[s], None},
           NEW how \in {"asked", "reply"}, Learns(c, s, v, how)
    PROVE  SeenInv'
<1>0. TypeOK /\ v \in Version
  BY DEF LoneInv, TypeOK, Version
<1>1. \A d \in Clients, t \in Slugs :
        \/ held'[d][t] = held[d][t] /\ basis'[d][t] = basis[d][t]
        \/ held'[d][t] = v /\ basis'[d][t] # "read"
  BY <1>0, LearnsParts
<1>2. object' = object /\ stored' = stored /\ again' = again
  BY DEF store
<1>3. VersionsStored'
  BY <1>1, <1>2 DEF SeenInv, VersionsStored, Onward
<1>4. HeldSeen'
  BY <1>1, <1>2 DEF SeenInv, HeldSeen
<1>5. MatchSeen'
  BY <1>2, KnownKept
<1>. QED BY <1>3, <1>4, <1>5 DEF SeenInv

LEMMA RawSeen ==
    ASSUME LoneInv, SeenInv, NEW c \in Clients, NEW t \in Slugs, GetRaw(c, t)
    PROVE  SeenInv'
<1>0. /\ object' = object /\ stored' = stored /\ again' = again /\ req' = req /\ held' = held
      /\ \A d \in Clients : seen[d] \subseteq seen'[d]
      /\ object[t] \in seen'[c]
      /\ \A d \in Clients, s \in Slugs : basis'[d][s] = basis[d][s] \/ (d = c /\ s = t)
  BY DEF GetRaw, Sees, store, LoneInv, TypeOK
<1>1. VersionsStored'
  BY <1>0 DEF SeenInv, VersionsStored
<1>2. HeldSeen'
  BY <1>0 DEF SeenInv, HeldSeen
<1>3. MatchSeen'
  BY <1>0 DEF SeenInv, MatchSeen
<1>. QED BY <1>1, <1>2, <1>3 DEF SeenInv

(* A request that starts sends no version, or one that its client holds.    *)
LEMMA BeginSeen ==
    ASSUME LoneInv, SeenInv, UNCHANGED store, held' = held, basis' = basis,
           NEW c \in Clients, NEW q \in Request, Starts(c, q),
           \A d \in Clients : seen[d] \subseteq seen'[d],
           \/ q.ifMatch = None /\ q.mode # "match"
           \/ q.ifMatch # None /\ q.ifMatch = held[c][q.slug] /\ q.basis = basis[c][q.slug]
    PROVE  SeenInv'
<1>0. /\ TypeOK /\ object' = object /\ stored' = stored /\ again' = again /\ q.slug \in Slugs
  BY DEF LoneInv, store, Request
<1>1. PICK n \in Request : /\ req'[c] = n /\ n.mode = q.mode /\ n.slug = q.slug
                           /\ n.ifMatch = q.ifMatch /\ n.basis = q.basis
  BY <1>0, StartsParts
<1>2. \A d \in Clients : d # c => Onward(d)
  BY <1>0, StartsOnward
<1>3. VersionsStored'
  <2>1. q.ifMatch # None => q.ifMatch \in stored
    BY <1>0 DEF SeenInv, VersionsStored
  <2>. QED BY <1>0, <1>1, <1>2, <2>1 DEF SeenInv, VersionsStored, Onward
<1>4. HeldSeen'
  BY <1>0 DEF SeenInv, HeldSeen
<1>5. MatchSeen'
  <2>. SUFFICES ASSUME NEW d \in Clients, req'[d] # None, req'[d].mode = "match",
                       req'[d].basis = "read", object[req'[d].slug] = req'[d].ifMatch
                PROVE  req'[d].ifMatch \in seen'[d] \cup again
    BY <1>0 DEF MatchSeen
  <2>1. CASE d = c
    BY <1>0, <1>1, <2>1 DEF SeenInv, HeldSeen
  <2>2. CASE d # c
    BY <1>2, <2>2 DEF Onward, SeenInv, MatchSeen
  <2>. QED BY <2>1, <2>2
<1>. QED BY <1>3, <1>4, <1>5 DEF SeenInv

LEMMA AskSeen ==
    ASSUME LoneInv, SeenInv, NEW c \in Clients, Ask(c)
    PROVE  SeenInv'
<1>0. TypeOK
  BY DEF LoneInv
<1>1. PICK s \in Slugs :
        \/ GetVersion(c, s) \/ GetRaw(c, s) \/ StartDelete(c, s)
        \/ \E x \in Contents :
              StartCreate(c, s, x) \/ StartOverwrite(c, s, x) \/ StartMatch(c, s, x)
  BY DEF Ask
<1>2. CASE GetVersion(c, s)
  <2>1. \A d \in Clients : Onward(d)
    BY <1>2 DEF GetVersion, Onward
  <2>. QED BY <1>2, <2>1, LearnsSeen DEF GetVersion
<1>3. CASE GetRaw(c, s)
  BY <1>3, RawSeen
<1>4. CASE StartDelete(c, s)
  <2>. DEFINE q == Upload("find", "delete", s, None, None, "asked", 0)
  <2>1. q \in Request /\ q.ifMatch = None /\ q.mode = "delete"
    BY UploadsAssumption DEF Upload, Request, Version, Basis
  <2>. QED BY <1>4, <2>1, BeginSeen DEF StartDelete, client
<1>5. ASSUME NEW x \in Contents, StartCreate(c, s, x) PROVE SeenInv'
  <2>0. PICK redraws \in {0, MaxRetries} :
          Starts(c, Upload("head", "create", s, x, None, "asked", redraws))
    BY <1>5 DEF StartCreate
  <2>. DEFINE q == Upload("head", "create", s, x, None, "asked", redraws)
  <2>1. q \in Request /\ q.ifMatch = None /\ q.mode = "create"
    BY UploadsAssumption DEF Upload, Request, Version, Basis
  <2>. QED BY <1>0, <1>5, <2>0, <2>1, BeginSeen, SendsType DEF StartCreate
<1>6. ASSUME NEW x \in Contents, StartOverwrite(c, s, x) PROVE SeenInv'
  <2>. DEFINE q == Upload("put", "overwrite", s, x, None, "asked", 0)
  <2>1. q \in Request /\ q.ifMatch = None /\ q.mode = "overwrite"
    BY UploadsAssumption DEF Upload, Request, Version, Basis
  <2>. QED BY <1>0, <1>6, <2>1, BeginSeen, SendsType DEF StartOverwrite
<1>7. ASSUME NEW x \in Contents, StartMatch(c, s, x) PROVE SeenInv'
  <2>0. held[c][s] \in Version /\ held[c][s] # None /\ basis[c][s] \in Basis
    BY <1>0, <1>7 DEF StartMatch, TypeOK
  <2>. DEFINE q == Upload("put", "match", s, x, held[c][s], basis[c][s], 0)
  <2>1. /\ q \in Request /\ q.ifMatch = held[c][s] /\ q.slug = s /\ q.basis = basis[c][s]
    BY <2>0, UploadsAssumption DEF Upload, Request, Version
  <2>. QED BY <1>0, <1>7, <2>0, <2>1, BeginSeen, SendsType DEF StartMatch
<1>. QED BY <1>1, <1>2, <1>3, <1>4, <1>5, <1>6, <1>7

(* A step that removes objects at most, and tells its client nothing.       *)
LEMMA QuietSeen ==
    ASSUME LoneInv, SeenInv, \A d \in Clients : Onward(d), UNCHANGED client,
           \A s \in Slugs : object'[s] \in {object[s], None}, UNCHANGED <<stored, again>>
    PROVE  SeenInv'
<1>1. VersionsStored'
  BY KnownKept DEF SeenInv, VersionsStored, client
<1>2. HeldSeen'
  BY DEF SeenInv, HeldSeen, client
<1>3. MatchSeen'
  BY KnownKept DEF client
<1>. QED BY <1>1, <1>2, <1>3 DEF SeenInv

LEMMA ServeSeen ==
    ASSUME LoneInv, SeenInv, NEW c \in Clients, Serve(c) \/ PutResent(c)
    PROVE  SeenInv'
<1>0. \A d \in Clients : Onward(d)
  BY ServeOnward
<1>1. CASE UNCHANGED client
  <2>1. CASE At(c, "put") /\ Stored(req[c])
    <3>1. req[c] \in Request /\ req[c].content \in Contents
      BY <2>1, ServeGoes DEF At, LoneInv, StepsFit, Fits
    <3>. QED BY <1>0, <1>1, <2>1, <3>1, StoredSeen
  <2>2. CASE (\A s \in Slugs : object'[s] \in {object[s], None}) /\ UNCHANGED <<stored, again>>
    BY <1>0, <1>1, <2>2, QuietSeen
  <2>. QED BY <2>1, <2>2, ServeStore DEF store
<1>2. CASE ~UNCHANGED client
  <2>1. /\ UNCHANGED <<store, seen>> /\ req[c].slug \in Slugs
        /\ \E v \in {object[req[c].slug], None}, how \in {"asked", "reply"} :
              Learns(c, req[c].slug, v, how)
    BY <1>2, ServeClient
  <2>. QED BY <1>0, <2>1, LearnsSeen
<1>. QED BY <1>1, <1>2

LEMMA NextSeen == LoneInv /\ SeenInv /\ [Next]_vars => SeenInv'
<1>. SUFFICES ASSUME LoneInv, SeenInv, [Next]_vars PROVE SeenInv'
  OBVIOUS
<1>1. CASE Restart
  <2>1. (\A d \in Clients : Onward(d)) /\ UNCHANGED client /\ UNCHANGED store
    BY <1>1 DEF Restart, Onward
  <2>. QED BY <2>1, QuietSeen DEF store
<1>2. CASE UNCHANGED vars
  <2>1. (\A d \in Clients : Onward(d)) /\ UNCHANGED client /\ UNCHANGED store
    BY <1>2 DEF Onward, vars
  <2>. QED BY <2>1, QuietSeen DEF store
<1>. QED BY <1>1, <1>2, AskSeen, ServeSeen DEF Next

-----------------------------------------------------------------------------
(* Theorems.                                                               *)

(* Type correctness of the objects, requests and what clients hold.         *)
THEOREM TypeCorrect == Spec => []TypeOK
<1>1. LoneInv => TypeOK
  BY DEF LoneInv
<1>. QED BY LoneAlways, <1>1, PTL

(* A create that meets nobody and has its question answered replaces        *)
(* nothing, however often its slug is drawn again and its put is sent.      *)
THEOREM LoneCreatesSafe == Spec => LoneCreateReplacesNothing
<1>1. LoneInv => [\A c \in Clients :
                    PutBy(c) /\ req[c].mode = "create" /\ req[c].lone =>
                        object[req[c].slug] = None]_vars
  <2>. SUFFICES ASSUME LoneInv, NEW c \in Clients, PutBy(c), req[c].mode = "create", req[c].lone
                PROVE  object[req[c].slug] = None
    OBVIOUS
  <2>1. At(c, "put") /\ object' # object
    BY DEF PutBy, Put, PutResent, PutFails
  <2>2. object' = [object EXCEPT ![req[c].slug] = req[c].content]
    BY <2>1 DEF PutBy, Put, PutResent, PutFails, Stored, store
  <2>3. /\ object[req[c].slug] \in {None, req[c].content}
        /\ object \in [Slugs -> Version]
    BY <2>1 DEF LoneInv, LoneAlone, TypeOK, At
  <2>. QED BY <2>1, <2>2, <2>3
<1>. QED BY LoneAlways, <1>1, PTL DEF LoneCreateReplacesNothing

(* An update whose version was asked for and whose content was then read    *)
(* replaces only what its client has sent or read, or what was stored more  *)
(* than once, whoever else uploads and deletes.                             *)
THEOREM GuideSafe == Spec => ReadUpdatesNotBlind
<1>1. LoneInv /\ SeenInv => [\A c \in Clients : BlindPut(c) => req[c].basis = "reply"]_vars
  <2>. SUFFICES ASSUME LoneInv, SeenInv, NEW c \in Clients, BlindPut(c)
                PROVE  req[c].basis = "reply"
    OBVIOUS
  <2>1. /\ req[c] # None /\ req[c].mode = "match"
        /\ object' # object
        /\ Put(c) \/ PutResent(c) \/ PutFails(c)
        /\ object[req[c].slug] \notin seen[c] \cup again
    BY DEF BlindPut, PutBy, Put, PutResent, PutFails, At
  <2>2. MayPut(req[c], object[req[c].slug])
    BY <2>1 DEF Put, PutResent, PutFails, store
  <2>3. object[req[c].slug] = req[c].ifMatch
    BY <2>1, <2>2 DEF MayPut
  <2>4. req[c].basis # "read"
    BY <2>1, <2>3 DEF SeenInv, MatchSeen
  <2>. QED BY <2>1, <2>4 DEF LoneInv, StepsFit, Fits
<1>2. Spec => [](LoneInv /\ SeenInv)
  <2>1. LoneInv /\ SeenInv /\ [Next]_vars => (LoneInv /\ SeenInv)'
    BY NextLone, NextSeen
  <2>2. Init => LoneInv /\ SeenInv
    BY InitLone, InitSeen
  <2>. QED BY <2>1, <2>2, PTL DEF Spec
<1>. QED BY <1>1, <1>2, PTL DEF Spec, ReadUpdatesNotBlind

=============================================================================
