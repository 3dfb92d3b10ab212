----------------------------- MODULE CardsProofs -----------------------------
(***************************************************************************)
(* Proofs about Cards for any images, versions and numbers of requests.    *)
(* A request that has met no writer is the only one that writes (Alone),   *)
(* so what it has read is still so (Sound); every other request may do     *)
(* what it likes, since the properties except what writers do who overlap. *)
(***************************************************************************)
EXTENDS Cards, TLAPS

\* The steps of each operation, and what it carries by then.
Fits(q) ==
    /\ q.op = "get" <=> q.step \in {"read", "fetch", "found", "missing"}
    /\ q.step \in {"check", "previous", "image", "meta"} => q.op = "put"
    /\ q.step \in {"head", "object"} => q.op = "remove"
    /\ q.step \in {"find", "erase"} => q.op \in {"delete", "remove"}
    /\ q.step \in {"previous", "image", "meta", "fetch", "erase"} => q.card # None
    /\ q.step = "check" => q.image # None
    /\ q.step = "drop" => q.old # None

\* A writer that has met no other: metadata and images are as it left them.
LoneWriter(q) ==
    /\ q.step = "meta" => q.card.image \in images
    /\ q.step \in {"image", "meta"} =>
          /\ q.old # q.card.image
          /\ ~leaked => q.old = Previous(q.card)
    /\ q.step = "drop" => meta = None \/ meta.image # q.old
    /\ q.step = "erase" => q.card = meta

\* A reader that began with a sound card and has met no writer.
LoneReader(q) ==
    /\ ~crossed
    /\ meta # None
    /\ q.step # "missing"
    /\ q.step = "fetch" => q.card = meta

Sound(q) ==
    /\ Fits(q)
    /\ Writes(q) /\ ~q.met => LoneWriter(q)
    /\ q.op = "get" /\ ~q.met => LoneReader(q)

AllSound == \A r \in Requests : req[r] # None => Sound(req[r])

Alone ==
    \A r, x \in Requests :
        r # x /\ req[r] # None /\ ~req[r].met => ~Writes(req[x])

\* As long as none have crossed, no writer has met another.
Uncrossed == ~crossed => \A r \in Requests : Writes(req[r]) => ~req[r].met

\* An image is the card's, or on its way in or out.
ImagesOwned ==
    ~crossed /\ ~leaked =>
        \A i \in images :
            \/ meta # None /\ meta.image = i
            \/ \E r \in Requests : At(r, "meta") /\ req[r].card.image = i
            \/ \E r \in Requests : At(r, "drop") /\ req[r].old = i

\* Whoever removed the artifact is still to remove its card.
CardLeaves ==
    artifact = None /\ ~stray /\ meta # None =>
        \E r \in Requests :
            req[r] # None /\ req[r].op = "remove" /\ req[r].step \in {"find", "erase"}

Flights == AllSound /\ Alone /\ Uncrossed

IInv ==
    /\ TypeOK
    /\ CardHasImage
    /\ Flights
    /\ ImagesOwned
    /\ CardLeaves

-----------------------------------------------------------------------------
(* Lemmas.                                                                 *)

LEMMA NoneFact == None \notin Card /\ None \notin Request /\ None \notin Images /\ None \notin Versions
BY CardsAssumption, CardRequestAssumption

LEMMA InitInv == Init => IInv
BY NoneFact DEF Init, IInv, TypeOK, CardHasImage, Flights, AllSound, Alone, Uncrossed,
                ImagesOwned, CardLeaves, Writes

(* A request goes on, as what it was, or ends.  What it does to the card is *)
(* known to nobody who must not know it: if it is a writer, the others have *)
(* met one.                                                                 *)
LEMMA StepFact ==
    ASSUME IInv, NEW r \in Requests, req[r] # None, NEW n \in Request \cup {None},
           req' = [req EXCEPT ![r] = n],
           n # None => n.op = req[r].op /\ n.met = req[r].met /\ Sound(n)',
           \/ UNCHANGED <<meta, images, crossed, leaked>>
           \/ /\ Writes(req[r])
              /\ crossed' = crossed \/ (~crossed' /\ ~req[r].met)
              /\ leaked' = leaked \/ leaked'
    PROVE  Flights'
<1>0. req \in [Requests -> Request \cup {None}]
  BY DEF IInv, TypeOK
<1>1. AllSound'
  <2>. SUFFICES ASSUME NEW x \in Requests, req'[x] # None PROVE Sound(req[x])'
    BY DEF AllSound
  <2>1. CASE x = r
    BY <1>0, <2>1
  <2>2. CASE x # r
    <3>1. req'[x] = req[x] /\ req[x] # None
      BY <1>0, <2>2
    <3>2. Sound(req[x])
      BY <3>1 DEF IInv, Flights, AllSound
    <3>3. CASE UNCHANGED <<meta, images, crossed, leaked>>
      BY <3>1, <3>2, <3>3 DEF Sound, LoneWriter, LoneReader, Previous
    <3>4. CASE Writes(req[r])
      <4>1. req[x].met
        BY <2>2, <3>1, <3>4 DEF IInv, Flights, Alone
      <4>. QED BY <3>1, <3>2, <4>1 DEF Sound
    <3>. QED BY <3>3, <3>4
  <2>. QED BY <2>1, <2>2
<1>2. \A x \in Requests :
        /\ req'[x] # None => req[x] # None /\ req'[x].met = req[x].met /\ req'[x].op = req[x].op
        /\ Writes(req'[x]) => Writes(req[x])
  BY <1>0 DEF Writes
<1>3. Alone'
  BY <1>2 DEF Alone, IInv, Flights
<1>4. Uncrossed'
  <2>. SUFFICES ASSUME ~crossed', NEW x \in Requests, Writes(req'[x]) PROVE ~req'[x].met
    BY DEF Uncrossed
  <2>1. Writes(req[x]) /\ req'[x].met = req[x].met
    BY <1>2 DEF Writes
  <2>2. CASE ~crossed
    BY <2>1, <2>2 DEF IInv, Flights, Uncrossed
  <2>3. CASE crossed
    <3>1. Writes(req[r]) /\ ~req[r].met
      BY <2>3
    <3>2. x = r
      BY <2>1, <3>1 DEF IInv, Flights, Alone
    <3>. QED BY <2>1, <3>1, <3>2
  <2>. QED BY <2>2, <2>3
<1>. QED BY <1>1, <1>3, <1>4 DEF Flights

(* Images stay accounted for when a request that is past neither a put nor  *)
(* before a deletion goes on.                                               *)
LEMMA OwnedFact ==
    ASSUME IInv, NEW r \in Requests, NEW n \in Request \cup {None}, req' = [req EXCEPT ![r] = n],
           UNCHANGED <<meta, images, crossed>>, leaked => leaked',
           leaked' \/ ~(At(r, "meta") \/ At(r, "drop"))
    PROVE  ImagesOwned'
<1>. SUFFICES ASSUME ~crossed', ~leaked', NEW i \in images'
              PROVE  \/ meta' # None /\ meta'.image = i
                     \/ \E x \in Requests : At(x, "meta")' /\ req'[x].card.image = i
                     \/ \E x \in Requests : At(x, "drop")' /\ req'[x].old = i
  BY DEF ImagesOwned
<1>0. req \in [Requests -> Request \cup {None}]
  BY DEF IInv, TypeOK
<1>1. \/ meta # None /\ meta.image = i
      \/ \E x \in Requests : At(x, "meta") /\ req[x].card.image = i
      \/ \E x \in Requests : At(x, "drop") /\ req[x].old = i
  BY DEF IInv, ImagesOwned
<1>2. ASSUME NEW x \in Requests, At(x, "meta") \/ At(x, "drop") PROVE req'[x] = req[x]
  BY <1>0, <1>2
<1>3. CASE meta # None /\ meta.image = i
  BY <1>3
<1>4. ASSUME NEW x \in Requests, At(x, "meta"), req[x].card.image = i
      PROVE  At(x, "meta")' /\ req'[x].card.image = i
  BY <1>2, <1>4 DEF At
<1>5. ASSUME NEW x \in Requests, At(x, "drop"), req[x].old = i
      PROVE  At(x, "drop")' /\ req'[x].old = i
  BY <1>2, <1>5 DEF At
<1>. QED BY <1>1, <1>3, <1>4, <1>5

(* The removal goes on to its card, or had no artifact to remove.           *)
LEMMA LeavesFact ==
    ASSUME IInv, NEW r \in Requests, NEW n \in Request \cup {None}, req' = [req EXCEPT ![r] = n],
           UNCHANGED <<artifact, meta>>, stray => stray',
           \/ stray' \/ meta = None \/ artifact # None
           \/ req[r] = None
           \/ ~(req[r].op = "remove" /\ req[r].step \in {"find", "erase"})
           \/ n # None /\ n.op = "remove" /\ n.step \in {"find", "erase"}
    PROVE  CardLeaves'
<1>0. req \in [Requests -> Request \cup {None}]
  BY DEF IInv, TypeOK
<1>. SUFFICES ASSUME artifact' = None, ~stray', meta' # None
              PROVE  \E x \in Requests :
                        req'[x] # None /\ req'[x].op = "remove" /\ req'[x].step \in {"find", "erase"}
  BY DEF CardLeaves
<1>1. PICK x \in Requests :
        req[x] # None /\ req[x].op = "remove" /\ req[x].step \in {"find", "erase"}
  BY DEF IInv, CardLeaves
<1>2. CASE x # r
  BY <1>0, <1>1, <1>2
<1>3. CASE x = r
  BY <1>0, <1>1, <1>3
<1>. QED BY <1>2, <1>3

(* A step that only asks, or ends a request.                                *)
LEMMA QuietFact ==
    ASSUME IInv, NEW r \in Requests, req[r] # None, NEW n \in Request \cup {None},
           req' = [req EXCEPT ![r] = n],
           n # None => n.op = req[r].op /\ n.met = req[r].met /\ Sound(n)',
           UNCHANGED <<artifact, meta, images, crossed>>,
           leaked' = leaked \/ (leaked' = TRUE /\ Writes(req[r])),
           stray' \in BOOLEAN, stray => stray',
           leaked' \/ ~(At(r, "meta") \/ At(r, "drop")),
           \/ stray' \/ meta = None \/ artifact # None
           \/ ~(req[r].op = "remove" /\ req[r].step \in {"find", "erase"})
           \/ n # None /\ n.op = "remove" /\ n.step \in {"find", "erase"}
    PROVE  IInv'
<1>1. leaked => leaked'
  OBVIOUS
<1>2. TypeOK'
  BY DEF IInv, TypeOK
<1>3. CardHasImage'
  BY DEF IInv, CardHasImage
<1>4. Flights'
  <2>1. CASE UNCHANGED leaked
    BY <2>1, StepFact
  <2>2. CASE Writes(req[r])
    BY <2>2, StepFact
  <2>. QED BY <2>1, <2>2
<1>5. ImagesOwned'
  BY <1>1, OwnedFact
<1>6. CardLeaves'
  BY LeavesFact
<1>. QED BY <1>2, <1>3, <1>4, <1>5, <1>6 DEF IInv

LEMMA EndsFact ==
    ASSUME IInv, NEW r \in Requests, req[r] # None, End(r),
           UNCHANGED <<artifact, meta, images, crossed>>,
           leaked' = leaked \/ (leaked' = TRUE /\ Writes(req[r])),
           stray' \in BOOLEAN, stray => stray',
           leaked' \/ ~(At(r, "meta") \/ At(r, "drop")),
           \/ stray' \/ meta = None \/ artifact # None
           \/ ~(req[r].op = "remove" /\ req[r].step \in {"find", "erase"})
    PROVE  IInv'
BY QuietFact DEF End

(* Where a request is.                                                      *)
LEMMA HereFact ==
    ASSUME IInv, NEW r \in Requests, req[r] # None
    PROVE  req[r] \in Request /\ Sound(req[r]) /\ Fits(req[r])
BY DEF IInv, TypeOK, Flights, AllSound, Sound

-----------------------------------------------------------------------------
(* The steps that only ask.                                                 *)

LEMMA CheckFact == ASSUME IInv, NEW r \in Requests, Check(r) PROVE IInv'
<1>0. req[r] # None /\ req[r].step = "check" /\ req[r] \in Request /\ Fits(req[r])
  BY HereFact DEF Check, At
<1>1. CASE artifact = None
  BY <1>0, <1>1, EndsFact DEF Check, history, At, Fits, IInv, TypeOK
<1>2. CASE artifact # None
  <2>9. PICK n : n = [req[r] EXCEPT !.step = "previous",
                                  !.card = [image |-> req[r].image, version |-> artifact]]
    OBVIOUS
  <2>1. /\ n \in Request /\ n.step = "previous" /\ n.op = req[r].op /\ n.met = req[r].met
        /\ n.card \in Card
    BY <2>9, <1>0, <1>2 DEF Request, Card, Fits, IInv, TypeOK
  <2>2. req' = [req EXCEPT ![r] = n]
    BY <2>9, <1>2 DEF Check
  <2>3. Sound(n)'
    BY <1>0, <2>1, NoneFact DEF Sound, Fits, LoneWriter, Writes
  <2>. QED BY <1>0, <2>1, <2>2, <2>3, QuietFact DEF Check, history, At, IInv, TypeOK, Fits
<1>. QED BY <1>1, <1>2

LEMMA PreviousFact == ASSUME IInv, NEW r \in Requests, ReadPrevious(r) PROVE IInv'
<1>0. /\ req[r] # None /\ req[r].step = "previous" /\ req[r] \in Request /\ Fits(req[r])
      /\ req[r].op = "put" /\ req[r].card \in Card
  BY HereFact DEF ReadPrevious, At, Fits, Request
<1>1. ASSUME NEW o \in Images \cup {None}, o # req[r].card.image,
             req' = [req EXCEPT ![r] = [req[r] EXCEPT !.step = "image", !.old = o]],
             (leaked' = leaked /\ o = Previous(req[r].card)) \/ leaked' = TRUE,
             UNCHANGED <<artifact, meta, images, crossed, stray>>
      PROVE  IInv'
  <2>9. PICK n : n = [req[r] EXCEPT !.step = "image", !.old = o]
    OBVIOUS
  <2>1. /\ n \in Request /\ n.step = "image" /\ n.op = "put" /\ n.met = req[r].met
        /\ n.card = req[r].card /\ n.old = o
    BY <2>9, <1>0 DEF Request
  <2>2. req' = [req EXCEPT ![r] = n]
    BY <2>9, <1>1
  <2>3. Sound(n)'
    BY <1>0, <1>1, <2>1, NoneFact DEF Sound, Fits, LoneWriter, Writes, Previous
  <2>4. Writes(req[r])
    BY <1>0 DEF Writes
  <2>5. stray \in BOOLEAN
    BY DEF IInv, TypeOK
  <2>. QED BY <1>0, <1>1, <2>1, <2>2, <2>3, <2>4, <2>5, QuietFact DEF At
<1>2. Previous(req[r].card) \in Images \cup {None} /\ Previous(req[r].card) # req[r].card.image
  BY <1>0, NoneFact DEF Previous, IInv, TypeOK, Card
<1>3. None # req[r].card.image
  BY <1>0, NoneFact DEF Card
<1>. QED BY <1>1, <1>2, <1>3 DEF ReadPrevious

LEMMA ReadFact == ASSUME IInv, NEW r \in Requests, ReadMeta(r) PROVE IInv'
<1>0. /\ req[r] # None /\ req[r].step = "read" /\ req[r] \in Request /\ Fits(req[r])
      /\ req[r].op = "get" /\ Sound(req[r])
  BY HereFact DEF ReadMeta, At, Fits
<1>1. ASSUME NEW n \in Request, req' = [req EXCEPT ![r] = n], n.op = "get", n.met = req[r].met,
             \/ n.step = "missing" /\ meta = None
             \/ n.step = "fetch" /\ n.card = meta /\ meta # None
      PROVE  IInv'
  <2>1. Sound(n)'
    BY <1>0, <1>1, NoneFact DEF Sound, Fits, LoneReader, Writes, ReadMeta, history
  <2>2. stray \in BOOLEAN
    BY DEF IInv, TypeOK
  <2>. QED BY <1>0, <1>1, <2>1, <2>2, QuietFact DEF ReadMeta, history, At
<1>2. CASE meta = None
  <2>9. PICK n : n = [req[r] EXCEPT !.step = "missing"]
    OBVIOUS
  <2>1. n \in Request /\ n.step = "missing" /\ n.op = "get" /\ n.met = req[r].met
    BY <2>9, <1>0 DEF Request
  <2>2. req' = [req EXCEPT ![r] = n]
    BY <2>9, <1>2 DEF ReadMeta
  <2>. QED BY <1>1, <1>2, <2>1, <2>2
<1>3. CASE meta # None
  <2>9. PICK n : n = [req[r] EXCEPT !.step = "fetch", !.card = meta]
    OBVIOUS
  <2>1. n \in Request /\ n.step = "fetch" /\ n.op = "get" /\ n.met = req[r].met /\ n.card = meta
    BY <2>9, <1>0 DEF Request, IInv, TypeOK
  <2>2. req' = [req EXCEPT ![r] = n]
    BY <2>9, <1>3 DEF ReadMeta
  <2>. QED BY <1>1, <1>3, <2>1, <2>2
<1>. QED BY <1>2, <1>3

LEMMA FetchFact == ASSUME IInv, NEW r \in Requests, FetchImage(r) PROVE IInv'
<1>0. /\ req[r] # None /\ req[r].step = "fetch" /\ req[r] \in Request /\ Fits(req[r])
      /\ req[r].op = "get" /\ Sound(req[r])
  BY HereFact DEF FetchImage, At, Fits
<1>1. PICK step \in {"found", "missing"} :
        /\ Goto(r, step)
        /\ step = "missing" => req[r].card.image \notin images
  BY DEF FetchImage
<1>9. PICK n : n = [req[r] EXCEPT !.step = step]
  OBVIOUS
<1>2. n \in Request /\ n.step = step /\ n.op = "get" /\ n.met = req[r].met
  BY <1>9, <1>0 DEF Request
<1>3. req' = [req EXCEPT ![r] = n]
  BY <1>9, <1>1 DEF Goto
<1>4. ~req[r].met => step = "found" /\ LoneReader(req[r])
  BY <1>0, <1>1 DEF Sound, LoneReader, IInv, CardHasImage
<1>5. Sound(n)'
  BY <1>0, <1>2, <1>4 DEF Sound, Fits, LoneReader, Writes, FetchImage, history
<1>6. stray \in BOOLEAN
  BY DEF IInv, TypeOK
<1>. QED BY <1>0, <1>2, <1>3, <1>5, <1>6, QuietFact DEF FetchImage, history, At

LEMMA AnswerFact == ASSUME IInv, NEW r \in Requests, AnswerGet(r) PROVE IInv'
<1>0. req[r] # None /\ Fits(req[r]) /\ req[r].step \in {"found", "missing"} /\ stray \in BOOLEAN
  BY HereFact DEF AnswerGet, At, IInv, TypeOK
<1>. QED BY <1>0, EndsFact DEF AnswerGet, history, At, Fits

LEMMA HeadFact == ASSUME IInv, NEW r \in Requests, HeadObject(r) PROVE IInv'
<1>0. /\ req[r] # None /\ req[r].step = "head" /\ req[r] \in Request /\ Fits(req[r])
      /\ stray \in BOOLEAN
  BY HereFact DEF HeadObject, At, IInv, TypeOK
<1>1. CASE End(r)
  BY <1>0, <1>1, EndsFact DEF HeadObject, history, At
<1>2. CASE Goto(r, "object")
  <2>9. PICK n : n = [req[r] EXCEPT !.step = "object"]
    OBVIOUS
  <2>1. n \in Request /\ n.step = "object" /\ n.op = req[r].op /\ n.met = req[r].met
    BY <2>9, <1>0 DEF Request
  <2>2. req' = [req EXCEPT ![r] = n]
    BY <2>9, <1>2 DEF Goto
  <2>3. Sound(n)'
    BY <1>0, <2>1 DEF Sound, Fits, LoneWriter, Writes
  <2>. QED BY <1>0, <2>1, <2>2, <2>3, QuietFact DEF HeadObject, history, At
<1>. QED BY <1>1, <1>2 DEF HeadObject

LEMMA FindFact == ASSUME IInv, NEW r \in Requests, FindMeta(r) PROVE IInv'
<1>0. /\ req[r] # None /\ req[r].step = "find" /\ req[r] \in Request /\ Fits(req[r])
      /\ stray \in BOOLEAN
  BY HereFact DEF FindMeta, At, IInv, TypeOK
<1>1. CASE meta = None
  BY <1>0, <1>1, EndsFact DEF FindMeta, history, At
<1>2. CASE meta # None
  <2>9. PICK n : n = [req[r] EXCEPT !.step = "erase", !.card = meta]
    OBVIOUS
  <2>1. /\ n \in Request /\ n.step = "erase" /\ n.op = req[r].op /\ n.met = req[r].met
        /\ n.card = meta
    BY <2>9, <1>0 DEF Request, IInv, TypeOK
  <2>2. req' = [req EXCEPT ![r] = n]
    BY <2>9, <1>2 DEF FindMeta
  <2>3. Sound(n)'
    BY <1>0, <1>2, <2>1 DEF Sound, Fits, LoneWriter, Writes, FindMeta, history
  <2>4. UNCHANGED <<artifact, meta, images, crossed, leaked, stray>> /\ ~(At(r, "meta") \/ At(r, "drop"))
    BY <1>0 DEF FindMeta, history, At
  <2>5. \/ ~(req[r].op = "remove" /\ req[r].step \in {"find", "erase"})
        \/ n # None /\ n.op = "remove" /\ n.step \in {"find", "erase"}
    BY <1>0, <2>1, NoneFact
  <2>. QED BY <1>0, <2>1, <2>2, <2>3, <2>4, <2>5, QuietFact
<1>. QED BY <1>1, <1>2

(* Stopping halfway: what is undone is what the history says is.            *)
LEMMA StopFact ==
    ASSUME IInv, NEW r \in Requests, req[r] # None, Abandons(r), End(r),
           UNCHANGED <<artifact, meta, images, crossed>>
    PROVE  IInv'
<1>0. req[r] \in Request /\ Fits(req[r]) /\ stray \in BOOLEAN /\ leaked \in BOOLEAN
  BY HereFact DEF IInv, TypeOK
<1>1. /\ leaked' = leaked \/ (leaked' = TRUE /\ Writes(req[r]))
      /\ stray' \in BOOLEAN /\ (stray => stray')
      /\ leaked' \/ ~(At(r, "meta") \/ At(r, "drop"))
  BY <1>0 DEF Abandons, Writes, Fits, At
<1>2. \/ stray' \/ meta = None \/ artifact # None
      \/ ~(req[r].op = "remove" /\ req[r].step \in {"find", "erase"})
  BY <1>0 DEF Abandons
<1>. QED BY <1>1, <1>2, EndsFact

-----------------------------------------------------------------------------
(* The steps that change the card.                                         *)

LEMMA PutImageFact == ASSUME IInv, NEW r \in Requests, PutImage(r) PROVE IInv'
<1>0. /\ req[r] # None /\ req[r].step = "image" /\ req[r] \in Request /\ Fits(req[r])
      /\ req[r].op = "put" /\ Sound(req[r]) /\ req[r].card \in Card /\ Writes(req[r])
      /\ req \in [Requests -> Request \cup {None}]
  BY HereFact DEF PutImage, At, Fits, Request, Writes, IInv, TypeOK
<1>1. PICK i \in Images : i = req[r].card.image
  BY <1>0 DEF Card
<1>2. PICK n : n = [req[r] EXCEPT !.step = "meta"]
  OBVIOUS
<1>3. /\ n \in Request /\ n.step = "meta" /\ n.op = "put" /\ n.met = req[r].met
      /\ n.card = req[r].card /\ n.old = req[r].old /\ n.image = req[r].image
  BY <1>0, <1>2 DEF Request
<1>4. /\ req' = [req EXCEPT ![r] = n] /\ images' = images \cup {i}
      /\ UNCHANGED <<artifact, meta, crossed, leaked, stray>>
  BY <1>1, <1>2 DEF PutImage, Goto, history
<1>5. Sound(n)'
  BY <1>0, <1>1, <1>3, <1>4 DEF Sound, Fits, LoneWriter, Writes, Previous
<1>6. TypeOK' /\ CardHasImage'
  BY <1>1, <1>3, <1>4 DEF IInv, TypeOK, CardHasImage
<1>7. Flights'
  BY <1>0, <1>3, <1>4, <1>5, StepFact
<1>8. ImagesOwned'
  <2>. SUFFICES ASSUME ~crossed', ~leaked', NEW j \in images'
                PROVE  \/ meta' # None /\ meta'.image = j
                       \/ \E x \in Requests : At(x, "meta")' /\ req'[x].card.image = j
                       \/ \E x \in Requests : At(x, "drop")' /\ req'[x].old = j
    BY DEF ImagesOwned
  <2>1. CASE j = i
    <3>1. At(r, "meta")' /\ req'[r].card.image = j
      BY <1>0, <1>1, <1>3, <1>4, <2>1, NoneFact DEF At
    <3>. QED BY <3>1
  <2>2. CASE j # i
    <3>1. \/ meta # None /\ meta.image = j
          \/ \E x \in Requests : At(x, "meta") /\ req[x].card.image = j
          \/ \E x \in Requests : At(x, "drop") /\ req[x].old = j
      BY <1>4, <2>2 DEF IInv, ImagesOwned
    <3>2. ASSUME NEW x \in Requests, At(x, "meta") \/ At(x, "drop") PROVE req'[x] = req[x]
      BY <1>0, <1>4, <3>2 DEF At
    <3>. QED BY <1>4, <3>1, <3>2 DEF At
  <2>. QED BY <2>1, <2>2
<1>9. CardLeaves'
  BY <1>0, <1>3, <1>4, LeavesFact
<1>. QED BY <1>6, <1>7, <1>8, <1>9 DEF IInv

LEMMA PutImageFailsFact == ASSUME IInv, NEW r \in Requests, PutImageFails(r) PROVE IInv'
<1>0. /\ req[r] # None /\ req[r].step = "image" /\ req[r] \in Request /\ Fits(req[r])
      /\ req[r].op = "put" /\ req[r].card \in Card /\ Writes(req[r])
  BY HereFact DEF PutImageFails, At, Fits, Request, Writes
<1>1. PICK i \in Images : i = req[r].card.image
  BY <1>0 DEF Card
<1>2. /\ req' = [req EXCEPT ![r] = None] /\ images' = images \cup {i} /\ leaked' = TRUE
      /\ UNCHANGED <<artifact, meta, crossed, stray>>
  BY <1>1 DEF PutImageFails, End
<1>3. TypeOK' /\ CardHasImage' /\ ImagesOwned'
  BY <1>1, <1>2 DEF IInv, TypeOK, CardHasImage, ImagesOwned
<1>4. Flights'
  BY <1>0, <1>2, StepFact
<1>5. CardLeaves'
  BY <1>0, <1>2, LeavesFact
<1>. QED BY <1>3, <1>4, <1>5 DEF IInv

(* A card is stored over what it was, by a writer that has put its image.   *)
LEMMA StoredFact ==
    ASSUME IInv, NEW r \in Requests, At(r, "meta"), StoreMeta(req[r]),
           NEW n \in Request \cup {None}, req' = [req EXCEPT ![r] = n],
           n # None => /\ n.op = req[r].op /\ n.met = req[r].met
                       /\ n.step = "drop" /\ n.old = req[r].old /\ n.old # None,
           UNCHANGED <<artifact, images>>,
           crossed' \in BOOLEAN, leaked' \in BOOLEAN,
           crossed' = crossed \/ (~crossed' /\ ~req[r].met),
           leaked => leaked', crossed => crossed' \/ leaked',
           leaked' \/ n # None \/ req[r].old = None
    PROVE  IInv'
<1>0. /\ req[r] # None /\ req[r].step = "meta" /\ req[r] \in Request /\ Fits(req[r])
      /\ req[r].op = "put" /\ Sound(req[r]) /\ req[r].card \in Card /\ Writes(req[r])
      /\ req \in [Requests -> Request \cup {None}]
  BY HereFact DEF At, Fits, Request, Writes, IInv, TypeOK
<1>1. meta' = req[r].card /\ stray' = (artifact = None)
  BY DEF StoreMeta
<1>2. ~crossed' => ~req[r].met
  BY <1>0 DEF IInv, Flights, Uncrossed
<1>3. ~req[r].met => /\ req[r].card.image \in images /\ req[r].old # req[r].card.image
                     /\ ~leaked => req[r].old = Previous(req[r].card)
  BY <1>0 DEF Sound, LoneWriter
<1>4. TypeOK' /\ CardHasImage'
  BY <1>0, <1>1, <1>2, <1>3 DEF IInv, TypeOK, CardHasImage
<1>5. ASSUME n # None PROVE Sound(n)'
  <2>1. n.op = "put" /\ n.step = "drop" /\ n.old # None /\ (~n.met <=> ~req[r].met)
    BY <1>0, <1>5
  <2>2. ~n.met => meta'.image # n.old
    BY <1>1, <1>3, <1>5
  <2>3. Fits(n)
    BY <2>1 DEF Fits
  <2>4. ~n.met => LoneWriter(n)'
    BY <2>1, <2>2 DEF LoneWriter
  <2>. QED BY <2>1, <2>3, <2>4 DEF Sound
<1>6. Flights'
  <2>1. leaked' = leaked \/ leaked'
    BY DEF IInv, TypeOK
  <2>2. n # None => n.op = req[r].op /\ n.met = req[r].met /\ Sound(n)'
    BY <1>5
  <2>. QED BY <1>0, <2>1, <2>2, StepFact
<1>7. ImagesOwned'
  <2>. SUFFICES ASSUME ~crossed', ~leaked', NEW j \in images', meta'.image # j
                PROVE  \E x \in Requests : At(x, "drop")' /\ req'[x].old = j
    BY <1>0, <1>1, NoneFact DEF ImagesOwned
  <2>1. ~crossed /\ ~leaked /\ ~req[r].met /\ req[r].old = Previous(req[r].card) /\ req[r].card.image # j
    BY <1>1, <1>2, <1>3
  <2>2. \/ meta # None /\ meta.image = j
        \/ \E x \in Requests : At(x, "meta") /\ req[x].card.image = j
        \/ \E x \in Requests : At(x, "drop") /\ req[x].old = j
    BY <2>1 DEF IInv, ImagesOwned
  <2>3. ASSUME NEW x \in Requests, At(x, "meta") \/ At(x, "drop") PROVE x = r
    <3>1. req[x] # None /\ Fits(req[x]) /\ req[x].step \in {"meta", "drop"}
      BY <2>3, HereFact DEF At
    <3>2. Writes(req[x])
      BY <3>1 DEF Writes, Fits
    <3>. QED BY <2>1, <3>2, <1>0 DEF IInv, Flights, Alone
  <2>4. meta # None /\ meta.image = j
    BY <2>1, <2>2, <2>3, <1>0 DEF At
  <2>5. req[r].old = j
    BY <2>1, <2>4 DEF Previous
  <2>6. j # None
    BY <1>4, NoneFact DEF TypeOK
  <2>7. n # None /\ n.step = "drop" /\ n.old = j
    BY <2>5, <2>6
  <2>8. At(r, "drop")' /\ req'[r].old = j
    BY <1>0, <2>7 DEF At
  <2>. QED BY <2>8
<1>8. CardLeaves'
  BY <1>1 DEF CardLeaves
<1>. QED BY <1>4, <1>6, <1>7, <1>8 DEF IInv

LEMMA PutMetaFact == ASSUME IInv, NEW r \in Requests, PutMeta(r) PROVE IInv'
<1>0. /\ req[r] # None /\ req[r] \in Request /\ crossed \in BOOLEAN /\ leaked \in BOOLEAN
  BY HereFact DEF PutMeta, At, IInv, TypeOK
<1>1. req[r].met \in BOOLEAN
  BY <1>0 DEF Request
<1>2. /\ crossed' \in BOOLEAN /\ leaked' \in BOOLEAN
      /\ crossed' = crossed \/ (~crossed' /\ ~req[r].met)
      /\ (leaked => leaked') /\ (crossed => crossed' \/ leaked')
  BY <1>0, <1>1 DEF PutMeta
<1>3. CASE req[r].old = None
  <2>1. req' = [req EXCEPT ![r] = None]
    BY <1>3 DEF PutMeta, ThenDrop, End
  <2>. QED BY <1>2, <1>3, <2>1, StoredFact DEF PutMeta
<1>4. CASE req[r].old # None
  <2>1. PICK n : n = [req[r] EXCEPT !.step = "drop", !.old = req[r].old]
    OBVIOUS
  <2>2. /\ n \in Request /\ n.op = req[r].op /\ n.met = req[r].met
        /\ n.step = "drop" /\ n.old = req[r].old /\ n # None
    BY <1>0, <2>1, NoneFact DEF Request
  <2>3. req' = [req EXCEPT ![r] = n]
    BY <1>4, <2>1 DEF PutMeta, ThenDrop
  <2>. QED BY <1>2, <1>4, <2>2, <2>3, StoredFact DEF PutMeta
<1>. QED BY <1>3, <1>4

LEMMA PutMetaFailsFact == ASSUME IInv, NEW r \in Requests, PutMetaFails(r) PROVE IInv'
<1>1. /\ req' = [req EXCEPT ![r] = None] /\ leaked' = TRUE
      /\ UNCHANGED <<artifact, images, crossed>> /\ crossed \in BOOLEAN
  BY DEF PutMetaFails, End, IInv, TypeOK
<1>. QED BY <1>1, StoredFact DEF PutMetaFails

LEMMA DropFact == ASSUME IInv, NEW r \in Requests, DropImage(r) PROVE IInv'
<1>0. /\ req[r] # None /\ req[r].step = "drop" /\ req[r] \in Request /\ Fits(req[r])
      /\ Sound(req[r]) /\ Writes(req[r]) /\ stray \in BOOLEAN
      /\ req \in [Requests -> Request \cup {None}]
  BY HereFact DEF DropImage, At, Fits, Writes, IInv, TypeOK
<1>1. CASE leaked' = TRUE /\ UNCHANGED images
  BY <1>0, <1>1, EndsFact DEF DropImage, At
<1>2. CASE images' = images \ {req[r].old} /\ UNCHANGED leaked
  <2>1. /\ req' = [req EXCEPT ![r] = None]
        /\ UNCHANGED <<artifact, meta, crossed, stray>>
    BY DEF DropImage, End
  <2>2. ~req[r].met => meta = None \/ meta.image # req[r].old
    BY <1>0 DEF Sound, LoneWriter
  <2>3. CardHasImage'
    BY <1>0, <1>2, <2>1, <2>2 DEF IInv, CardHasImage, Flights, Uncrossed
  <2>4. TypeOK'
    BY <1>2, <2>1 DEF IInv, TypeOK
  <2>5. Flights'
    BY <1>0, <1>2, <2>1, StepFact
  <2>6. ImagesOwned'
    <3>. SUFFICES ASSUME ~crossed', ~leaked', NEW j \in images'
                  PROVE  \/ meta' # None /\ meta'.image = j
                         \/ \E x \in Requests : At(x, "meta")' /\ req'[x].card.image = j
                         \/ \E x \in Requests : At(x, "drop")' /\ req'[x].old = j
      BY DEF ImagesOwned
    <3>1. \/ meta # None /\ meta.image = j
          \/ \E x \in Requests : At(x, "meta") /\ req[x].card.image = j
          \/ \E x \in Requests : At(x, "drop") /\ req[x].old = j
      BY <1>2, <2>1 DEF IInv, ImagesOwned
    <3>2. ASSUME NEW x \in Requests, At(x, "meta") PROVE req'[x] = req[x]
      BY <1>0, <2>1, <3>2 DEF At
    <3>3. ASSUME NEW x \in Requests, At(x, "drop"), req[x].old = j PROVE req'[x] = req[x]
      BY <1>0, <1>2, <2>1, <3>3 DEF At
    <3>. QED BY <2>1, <3>1, <3>2, <3>3 DEF At
  <2>7. CardLeaves'
    BY <1>0, <2>1, LeavesFact
  <2>. QED BY <2>3, <2>4, <2>5, <2>6, <2>7 DEF IInv
<1>. QED BY <1>1, <1>2 DEF DropImage

(* The metadata goes, by a writer that knows the image it named.            *)
LEMMA ErasedFact ==
    ASSUME IInv, NEW r \in Requests, At(r, "erase"), meta' = None, stray' = FALSE,
           NEW n \in Request \cup {None}, req' = [req EXCEPT ![r] = n],
           n # None => /\ n.op = req[r].op /\ n.met = req[r].met
                       /\ n.step = "drop" /\ n.old = req[r].card.image,
           UNCHANGED <<artifact, images, crossed>>,
           leaked' \in BOOLEAN, leaked => leaked', leaked' \/ n # None
    PROVE  IInv'
<1>0. /\ req[r] # None /\ req[r].step = "erase" /\ req[r] \in Request /\ Fits(req[r])
      /\ Sound(req[r]) /\ req[r].card \in Card /\ Writes(req[r]) /\ req[r].op # "get"
      /\ req \in [Requests -> Request \cup {None}]
  BY HereFact DEF At, Fits, Request, Writes, IInv, TypeOK
<1>1. TypeOK' /\ CardHasImage' /\ CardLeaves'
  BY <1>0 DEF IInv, TypeOK, CardHasImage, CardLeaves
<1>2. ASSUME n # None PROVE Sound(n)'
  <2>1. n.op \in {"delete", "remove"} /\ n.step = "drop" /\ n.old # None
    BY <1>0, <1>2, NoneFact DEF Fits, Card
  <2>2. Fits(n)
    BY <2>1 DEF Fits
  <2>3. LoneWriter(n)'
    BY <2>1 DEF LoneWriter
  <2>. QED BY <2>1, <2>2, <2>3 DEF Sound
<1>3. Flights'
  <2>1. leaked' = leaked \/ leaked'
    BY DEF IInv, TypeOK
  <2>2. n # None => n.op = req[r].op /\ n.met = req[r].met /\ Sound(n)'
    BY <1>2
  <2>. QED BY <1>0, <2>1, <2>2, StepFact
<1>4. ImagesOwned'
  <2>. SUFFICES ASSUME ~crossed', ~leaked', NEW j \in images'
                PROVE  \/ \E x \in Requests : At(x, "meta")' /\ req'[x].card.image = j
                       \/ \E x \in Requests : At(x, "drop")' /\ req'[x].old = j
    BY DEF ImagesOwned
  <2>1. ~req[r].met /\ ~crossed /\ ~leaked
    BY <1>0 DEF IInv, Flights, Uncrossed
  <2>2. req[r].card = meta
    BY <1>0, <2>1 DEF Sound, LoneWriter
  <2>3. \/ meta # None /\ meta.image = j
        \/ \E x \in Requests : At(x, "meta") /\ req[x].card.image = j
        \/ \E x \in Requests : At(x, "drop") /\ req[x].old = j
    BY <2>1 DEF IInv, ImagesOwned
  <2>4. CASE meta.image = j
    <3>1. n # None
      OBVIOUS
    <3>2. At(r, "drop")' /\ req'[r].old = j
      BY <1>0, <2>2, <2>4, <3>1 DEF At
    <3>. QED BY <3>2
  <2>5. ASSUME NEW x \in Requests, At(x, "meta") \/ At(x, "drop") PROVE req'[x] = req[x]
    BY <1>0, <2>5 DEF At
  <2>. QED BY <2>3, <2>4, <2>5 DEF At
<1>. QED BY <1>1, <1>3, <1>4 DEF IInv

LEMMA EraseFact == ASSUME IInv, NEW r \in Requests, EraseMeta(r) PROVE IInv'
<1>0. /\ req[r] # None /\ req[r] \in Request /\ leaked \in BOOLEAN
      /\ req[r].card \in Card
  BY HereFact DEF EraseMeta, At, IInv, TypeOK, Fits, Request
<1>1. PICK n : n = [req[r] EXCEPT !.step = "drop", !.old = req[r].card.image]
  OBVIOUS
<1>2. /\ n \in Request /\ n.op = req[r].op /\ n.met = req[r].met
      /\ n.step = "drop" /\ n.old = req[r].card.image /\ n # None
  BY <1>0, <1>1, NoneFact DEF Request, Card
<1>3. req' = [req EXCEPT ![r] = n]
  BY <1>1 DEF EraseMeta
<1>. QED BY <1>0, <1>2, <1>3, ErasedFact DEF EraseMeta

LEMMA EraseFailsFact == ASSUME IInv, NEW r \in Requests, EraseMetaFails(r) PROVE IInv'
<1>1. req' = [req EXCEPT ![r] = None] /\ leaked' = TRUE
  BY DEF EraseMetaFails, End
<1>. QED BY <1>1, ErasedFact DEF EraseMetaFails

LEMMA RemoveFact == ASSUME IInv, NEW r \in Requests, RemoveObject(r) PROVE IInv'
<1>0. /\ req[r] # None /\ req[r].step = "object" /\ req[r] \in Request /\ Fits(req[r])
      /\ req[r].op = "remove" /\ Writes(req[r])
      /\ req \in [Requests -> Request \cup {None}]
  BY HereFact DEF RemoveObject, At, Fits, Writes, IInv, TypeOK
<1>1. PICK n : n = [req[r] EXCEPT !.step = "find"]
  OBVIOUS
<1>2. n \in Request /\ n.step = "find" /\ n.op = "remove" /\ n.met = req[r].met
  BY <1>0, <1>1 DEF Request
<1>3. /\ req' = [req EXCEPT ![r] = n] /\ artifact' = None
      /\ UNCHANGED <<meta, images, crossed, leaked, stray>>
  BY <1>1 DEF RemoveObject, Goto, history
<1>4. TypeOK' /\ CardHasImage'
  BY <1>2, <1>3 DEF IInv, TypeOK, CardHasImage
<1>5. Sound(n)'
  BY <1>2 DEF Sound, Fits, LoneWriter
<1>6. Flights'
  BY <1>0, <1>2, <1>3, <1>5, StepFact
<1>7. ImagesOwned'
  BY <1>0, <1>2, <1>3, OwnedFact DEF At
<1>8. CardLeaves'
  <2>1. req'[r] # None /\ req'[r].op = "remove" /\ req'[r].step = "find"
    BY <1>0, <1>2, <1>3, NoneFact
  <2>. QED BY <2>1 DEF CardLeaves
<1>. QED BY <1>4, <1>6, <1>7, <1>8 DEF IInv

LEMMA RemoveFailsFact == ASSUME IInv, NEW r \in Requests, RemoveObjectFails(r) PROVE IInv'
<1>0. /\ req[r] # None /\ req[r].step = "object" /\ Fits(req[r])
  BY HereFact DEF RemoveObjectFails, At
<1>1. /\ req' = [req EXCEPT ![r] = None] /\ artifact' = None /\ stray' = (meta # None)
      /\ UNCHANGED <<meta, images, crossed, leaked>>
  BY DEF RemoveObjectFails, End
<1>2. TypeOK' /\ CardHasImage' /\ CardLeaves'
  BY <1>1 DEF IInv, TypeOK, CardHasImage, CardLeaves
<1>3. Flights'
  BY <1>0, <1>1, StepFact
<1>4. ImagesOwned'
  BY <1>0, <1>1, OwnedFact DEF At
<1>. QED BY <1>2, <1>3, <1>4 DEF IInv

LEMMA ArtifactFact == ASSUME IInv, NEW v \in Versions, PutArtifact(v) PROVE IInv'
<1>1. artifact' = v /\ v # None /\ UNCHANGED <<meta, images, req, crossed, leaked, stray>>
  BY NoneFact DEF PutArtifact, history
<1>2. TypeOK' /\ CardHasImage' /\ CardLeaves'
  BY <1>1 DEF IInv, TypeOK, CardHasImage, CardLeaves
<1>3. AllSound'
  BY <1>1 DEF IInv, Flights, AllSound, Sound, LoneWriter, LoneReader, Previous
<1>4. Alone' /\ Uncrossed'
  BY <1>1 DEF IInv, Flights, Alone, Uncrossed
<1>5. ImagesOwned'
  BY <1>1 DEF IInv, ImagesOwned, At
<1>. QED BY <1>2, <1>3, <1>4, <1>5 DEF IInv, Flights

-----------------------------------------------------------------------------
(* Requests that start.                                                     *)

(* A writer that starts has met whoever writes, and all others have met it. *)
LEMMA WriterFact ==
    ASSUME IInv, NEW r \in Requests, NEW q \in Request, StartWriter(r, q), Fits(q),
           q.step \in {"check", "find", "head"}
    PROVE  IInv'
<1>0. /\ req \in [Requests -> Request \cup {None}] /\ crossed \in BOOLEAN /\ req[r] = None
      /\ UNCHANGED <<artifact, meta, images, leaked, stray>> /\ crossed' = (crossed \/ Writing)
  BY DEF StartWriter, IInv, TypeOK
<1>1. PICK writing \in BOOLEAN : writing <=> Writing
  OBVIOUS
<1>2. ASSUME NEW o \in Request, NEW b \in BOOLEAN
      PROVE  /\ [o EXCEPT !.met = b] \in Request
             /\ [o EXCEPT !.met = b].met = b
             /\ [o EXCEPT !.met = b].op = o.op
             /\ [o EXCEPT !.met = b].step = o.step
             /\ [o EXCEPT !.met = b].image = o.image
             /\ [o EXCEPT !.met = b].card = o.card
             /\ [o EXCEPT !.met = b].old = o.old
  BY DEF Request
<1>3. req'[r] = [q EXCEPT !.met = Writing] /\ req' = [x \in Requests |-> req'[x]]
  BY DEF StartWriter
<1>4. [q EXCEPT !.met = Writing] = [q EXCEPT !.met = writing]
  <2>1. Writing = writing
    BY <1>1 DEF Writing
  <2>. QED BY <2>1
<1>5. PICK n \in Request : n = [q EXCEPT !.met = writing]
  BY <1>2
<1>6. /\ req'[r] = n /\ (n.met <=> Writing) /\ n.op = q.op /\ n.step = q.step
      /\ n.image = q.image /\ n.card = q.card /\ n.old = q.old
  BY <1>1, <1>2, <1>3, <1>4, <1>5
<1>7. ASSUME NEW x \in Requests, x # r, req[x] # None
      PROVE  /\ req'[x] \in Request /\ req'[x].met
             /\ req'[x].op = req[x].op /\ req'[x].step = req[x].step
             /\ req'[x].image = req[x].image /\ req'[x].card = req[x].card
             /\ req'[x].old = req[x].old
  <2>1. PICK o \in Request : o = req[x]
    BY <1>0, <1>7
  <2>2. req'[x] = [o EXCEPT !.met = TRUE]
    BY <1>7, <2>1 DEF StartWriter
  <2>3. /\ [o EXCEPT !.met = TRUE] \in Request /\ [o EXCEPT !.met = TRUE].met
        /\ [o EXCEPT !.met = TRUE].op = o.op /\ [o EXCEPT !.met = TRUE].step = o.step
        /\ [o EXCEPT !.met = TRUE].image = o.image /\ [o EXCEPT !.met = TRUE].card = o.card
        /\ [o EXCEPT !.met = TRUE].old = o.old
    BY DEF Request
  <2>. QED BY <2>1, <2>2, <2>3
<1>8. \A x \in Requests : x # r /\ req[x] = None => req'[x] = None
  BY DEF StartWriter
<1>9. TypeOK'
  <2>1. req' \in [Requests -> Request \cup {None}]
    BY <1>3, <1>6, <1>7, <1>8
  <2>2. crossed' \in BOOLEAN
    BY <1>0 DEF Writing
  <2>. QED BY <1>0, <2>1, <2>2 DEF IInv, TypeOK
<1>10. CardHasImage'
  BY <1>0 DEF IInv, CardHasImage
<1>11. AllSound'
  <2>. SUFFICES ASSUME NEW x \in Requests, req'[x] # None PROVE Sound(req[x])'
    BY DEF AllSound
  <2>1. CASE x = r
    <3>1. n.op # "get" /\ Fits(n)
      BY <1>6 DEF Fits
    <3>2. LoneWriter(n)'
      BY <1>6 DEF LoneWriter
    <3>. QED BY <1>6, <2>1, <3>1, <3>2 DEF Sound
  <2>2. CASE x # r
    <3>1. req[x] # None /\ Fits(req[x])
      BY <1>8, <2>2, HereFact
    <3>2. Fits(req'[x]) /\ req'[x].met
      BY <1>7, <2>2, <3>1 DEF Fits
    <3>. QED BY <3>2 DEF Sound
  <2>. QED BY <2>1, <2>2
<1>12. \A x \in Requests : x # r => (Writes(req'[x]) <=> Writes(req[x]))
  BY <1>7, <1>8, NoneFact DEF Writes
<1>13. Alone'
  <2>. SUFFICES ASSUME NEW x \in Requests, NEW y \in Requests, x # y, req'[x] # None, ~req'[x].met
                PROVE  ~Writes(req'[y])
    BY DEF Alone
  <2>1. x = r
    BY <1>7, <1>8
  <2>2. ~Writing
    BY <1>6, <2>1
  <2>. QED BY <1>12, <2>1, <2>2 DEF Writing
<1>14. Uncrossed'
  <2>. SUFFICES ASSUME ~crossed', NEW x \in Requests, Writes(req'[x]) PROVE ~req'[x].met
    BY DEF Uncrossed
  <2>1. ~Writing
    BY <1>0
  <2>2. x = r
    BY <1>12, <2>1 DEF Writing
  <2>. QED BY <1>6, <2>1, <2>2
<1>15. ImagesOwned'
  <2>1. ASSUME NEW x \in Requests, NEW step, At(x, step)
        PROVE  At(x, step)' /\ req'[x].card = req[x].card /\ req'[x].old = req[x].old
    BY <1>0, <1>7, <2>1, NoneFact DEF At
  <2>2. ~crossed' /\ ~leaked' => ~crossed /\ ~leaked
    BY <1>0
  <2>. QED BY <1>0, <2>1, <2>2 DEF IInv, ImagesOwned
<1>16. CardLeaves'
  BY <1>0, <1>7, NoneFact DEF IInv, CardLeaves
<1>. QED BY <1>9, <1>10, <1>11, <1>13, <1>14, <1>15, <1>16 DEF IInv, Flights

LEMMA StartPutFact == ASSUME IInv, NEW r \in Requests, NEW i \in Images, StartPut(r, i) PROVE IInv'
<1>. DEFINE q == Call("put", "check", i)
<1>1. q \in Request /\ Fits(q) /\ q.step = "check"
  BY NoneFact DEF Call, Request, Fits
<1>. QED BY <1>1, WriterFact DEF StartPut

LEMMA StartDeleteFact == ASSUME IInv, NEW r \in Requests, StartDelete(r) PROVE IInv'
<1>. DEFINE q == Call("delete", "find", None)
<1>1. q \in Request /\ Fits(q) /\ q.step = "find"
  BY DEF Call, Request, Fits
<1>. QED BY <1>1, WriterFact DEF StartDelete

LEMMA StartRemoveFact == ASSUME IInv, NEW r \in Requests, StartRemove(r) PROVE IInv'
<1>. DEFINE q == Call("remove", "head", None)
<1>1. q \in Request /\ Fits(q) /\ q.step = "head"
  BY DEF Call, Request, Fits
<1>. QED BY <1>1, WriterFact DEF StartRemove

(* A reader that starts knows of a sound card, or has met a writer.         *)
LEMMA StartGetFact == ASSUME IInv, NEW r \in Requests, StartGet(r) PROVE IInv'
<1>0. /\ req \in [Requests -> Request \cup {None}] /\ req[r] = None
      /\ UNCHANGED <<artifact, meta, images, crossed, leaked, stray>>
  BY DEF StartGet, IInv, TypeOK, history
<1>1. PICK met \in BOOLEAN : met = (crossed \/ meta = None \/ Writing)
  OBVIOUS
<1>2. PICK n : n = [Call("get", "read", None) EXCEPT !.met = met]
  OBVIOUS
<1>3. /\ n \in Request /\ n.op = "get" /\ n.step = "read" /\ n.met = met
  BY <1>2 DEF Call, Request
<1>4. req' = [req EXCEPT ![r] = n]
  BY <1>1, <1>2 DEF StartGet
<1>5. TypeOK' /\ CardHasImage'
  BY <1>0, <1>3, <1>4 DEF IInv, TypeOK, CardHasImage
<1>6. ~n.met => ~crossed /\ meta # None /\ ~Writing
  BY <1>1, <1>3
<1>7. AllSound'
  <2>. SUFFICES ASSUME NEW x \in Requests, req'[x] # None PROVE Sound(req[x])'
    BY DEF AllSound
  <2>1. CASE x = r
    <3>1. Sound(n)'
      BY <1>0, <1>3, <1>6 DEF Sound, Fits, LoneReader, Writes
    <3>. QED BY <1>0, <1>4, <2>1, <3>1
  <2>2. CASE x # r
    <3>1. req'[x] = req[x] /\ Sound(req[x])
      BY <1>0, <1>4, <2>2, HereFact
    <3>. QED BY <1>0, <3>1 DEF Sound, LoneWriter, LoneReader, Previous
  <2>. QED BY <2>1, <2>2
<1>8. \A x \in Requests : Writes(req'[x]) => x # r /\ req'[x] = req[x]
  BY <1>0, <1>3, <1>4 DEF Writes
<1>9. Alone'
  <2>. SUFFICES ASSUME NEW x \in Requests, NEW y \in Requests, x # y, req'[x] # None,
                       ~req'[x].met, Writes(req'[y])
                PROVE  FALSE
    BY DEF Alone
  <2>1. Writes(req[y])
    BY <1>8
  <2>2. CASE x = r
    BY <1>0, <1>4, <1>6, <2>1, <2>2 DEF Writing
  <2>3. CASE x # r
    BY <1>0, <1>4, <2>1, <2>3 DEF IInv, Flights, Alone
  <2>. QED BY <2>2, <2>3
<1>10. Uncrossed'
  BY <1>0, <1>8 DEF IInv, Flights, Uncrossed
<1>11. ImagesOwned'
  BY <1>0, <1>3, <1>4, OwnedFact DEF At
<1>12. CardLeaves'
  BY <1>0, <1>3, <1>4, LeavesFact
<1>. QED BY <1>5, <1>7, <1>9, <1>10, <1>11, <1>12 DEF IInv, Flights

LEMMA NextInv == IInv /\ [Next]_vars => IInv'
<1>. SUFFICES ASSUME IInv, [Next]_vars PROVE IInv'
  OBVIOUS
<1>1. ASSUME NEW r \in Requests, PutCard(r) PROVE IInv'
  BY <1>1, StartPutFact, CheckFact, PreviousFact, PutImageFact, PutImageFailsFact, PutMetaFact,
     PutMetaFailsFact DEF PutCard
<1>2. ASSUME NEW r \in Requests, GetCard(r) PROVE IInv'
  BY <1>2, StartGetFact, ReadFact, FetchFact, AnswerFact DEF GetCard
<1>3. ASSUME NEW r \in Requests, DeleteCard(r) PROVE IInv'
  BY <1>3, StartDeleteFact, FindFact, EraseFact, EraseFailsFact DEF DeleteCard
<1>4. ASSUME NEW r \in Requests, RemoveArtifact(r) PROVE IInv'
  BY <1>4, StartRemoveFact, HeadFact, RemoveFact, RemoveFailsFact DEF RemoveArtifact
<1>5. ASSUME NEW r \in Requests, Fails(r) \/ Stops(r) PROVE IInv'
  BY <1>5, StopFact DEF Fails, Stops
<1>6. CASE UNCHANGED vars
  <2>1. UNCHANGED <<artifact, meta, images, req, crossed, leaked, stray>>
    BY <1>6 DEF vars, history
  <2>2. Flights'
    BY <2>1 DEF IInv, Flights, AllSound, Sound, LoneWriter, LoneReader, Previous, Alone, Uncrossed
  <2>. QED BY <2>1, <2>2 DEF IInv, TypeOK, CardHasImage, ImagesOwned, CardLeaves, At
<1>. QED BY <1>1, <1>2, <1>3, <1>4, <1>5, <1>6, DropFact, ArtifactFact DEF Next

-----------------------------------------------------------------------------
(* Theorems.                                                               *)

(* The invariant the others rest on: what a request that met nobody knows.  *)
THEOREM Invariance == Spec => []IInv
BY InitInv, NextInv, PTL DEF Spec

(* The image the metadata names is stored unless two writers overlapped,    *)
(* whatever failed or stopped halfway.                                      *)
THEOREM ImageStored == Spec => []CardHasImage
<1>1. IInv => CardHasImage
  BY DEF IInv
<1>. QED BY Invariance, <1>1, PTL

(* Nothing outlives what it belongs to: no image its card, and no card its  *)
(* artifact.                                                                *)
THEOREM LeavesNothing == Spec => []NothingLeft
<1>1. IInv => NoImageLeft
  <2>. SUFFICES ASSUME IInv, ~crossed, ~leaked, ~Writing, NEW i \in images
                PROVE  meta # None /\ meta.image = i
    BY DEF NoImageLeft
  <2>1. ASSUME NEW r \in Requests, At(r, "meta") \/ At(r, "drop") PROVE FALSE
    <3>1. req[r] # None /\ Fits(req[r]) /\ req[r].step \in {"meta", "drop"}
      BY <2>1, HereFact DEF At
    <3>2. Writes(req[r])
      BY <3>1 DEF Writes, Fits
    <3>. QED BY <3>2 DEF Writing
  <2>. QED BY <2>1 DEF IInv, ImagesOwned
<1>2. IInv => CardGoesWithArtifact
  <2>. SUFFICES ASSUME IInv, artifact = None, ~stray, meta # None PROVE Writing
    BY DEF CardGoesWithArtifact
  <2>1. PICK r \in Requests : req[r] # None /\ req[r].op = "remove"
    BY DEF IInv, CardLeaves
  <2>. QED BY <2>1 DEF Writing, Writes
<1>3. IInv => NothingLeft
  BY <1>1, <1>2 DEF IInv, NothingLeft
<1>. QED BY Invariance, <1>3, PTL

(* Nobody is told that there is no card when there was one throughout, and  *)
(* no writer at work.                                                       *)
THEOREM MissingSafe == Spec => []MissingIsTrue
<1>1. IInv => MissingIsTrue
  <2>. SUFFICES ASSUME IInv, NEW r \in Requests, At(r, "missing"), ~req[r].met PROVE FALSE
    BY DEF MissingIsTrue
  <2>1. req[r] # None /\ req[r].step = "missing" /\ Sound(req[r]) /\ Fits(req[r])
    BY HereFact DEF At
  <2>. QED BY <2>1 DEF Sound, Fits, LoneReader
<1>. QED BY Invariance, <1>1, PTL

=============================================================================
