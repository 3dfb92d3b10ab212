----------------------------- MODULE SlackProofs -----------------------------
(***************************************************************************)
(* Proofs about Notify, for any people, any number of comments and of      *)
(* attempts, and about Unfurl, for any number of users, messages and       *)
(* versions.  What recipients are told rests on what an activity says of   *)
(* the comments while these go on changing (Stored), and on what the       *)
(* attempt in hand has done so far (Underway); what a preview shows rests  *)
(* on what its making has read (InTheMaking) and on how old the caches'    *)
(* answers are (ListSound, ChannelSound).  The recipients are collected by *)
(* a recursive function, whose values are known by induction (Induction).  *)
(***************************************************************************)
EXTENDS Notify, Unfurl, FiniteSetTheorems, WellFoundedInduction, NaturalsInduction, TLAPS

-----------------------------------------------------------------------------
(* Notify: the invariant.                                                  *)

\* What an activity says of the comments, whatever has become of them.
Stored(a) ==
    LET t == comments[a.comment].thread
    IN  /\ a.comment \in Ids
        /\ \A i \in a.live : i \in Ids /\ comments[i].thread = t
        /\ a.kind \in {"thread_resolved", "thread_reopened"} => a.comment \in a.live
        /\ a.kind = "reply_created" =>
             \A i \in Ids : comments[i].thread = t /\ ~comments[i].deleted /\ i <= a.comment => i \in a.live

\* Who may hear of an activity, and who must.
MayHear(p, a) ==
    /\ p # a.actor
    /\ \/ p = Owner
       \/ \E i \in Ids : /\ comments[i].author = p
                         /\ comments[i].thread = comments[a.comment].thread
                         /\ i \in a.live \/ i > a.comment

MustHear(p, a) ==
    /\ p # a.actor
    /\ \/ a.kind = "thread_created" /\ p = Owner
       \/ a.kind = "reply_created" /\ p = Owner
       \/ a.kind = "reply_created" /\ \E i \in a.live : ~comments[i].deleted /\ comments[i].author = p
       \/ a.kind \in {"thread_resolved", "thread_reopened"} /\ p = comments[a.comment].author

To(q) == {q[i] : i \in DOMAIN q}

Once(q) == \A i, j \in DOMAIN q : i # j => q[i] # q[j]

Sending == {"next", "user", "post", "sleep"}

\* How often delivery to p has been tried, at most.
Tries(d, p) ==
    IF d.step = "next" \/ p # d.rest[1] THEN 0
    ELSE IF d.step = "sleep" THEN d.try ELSE d.try - 1

\* Nothing has been sent for the activity.
Fresh == \A p \in People : told[p] = 0 /\ unsure[p] = 0 /\ over[p] = None

\* Those still to be told are owed it, each once, and have not been told but by attempts
\* whose answers were lost; those who must hear are among them or have been dealt with.
Underway(d) ==
    /\ Once(d.rest)
    /\ d.step # "next" => d.rest # <<>>
    /\ d.step = "sleep" => d.try < Attempts
    /\ \A p \in To(d.rest) : /\ MayHear(p, d.act) /\ over[p] = None
                             /\ told[p] = unsure[p] /\ told[p] <= Tries(d, p)
    /\ \A p \in People : told[p] > 0 => MayHear(p, d.act)
    /\ \A p \in People : MustHear(p, d.act) => p \in To(d.rest) \/ over[p] # None

DeliverySound ==
    /\ delivery # None => Stored(delivery.act)
    /\ delivery # None /\ delivery.step \in Sending => Underway(delivery)
    /\ delivery = None \/ delivery.step \notin Sending => Fresh

\* Activity is counted before it is reported, and is about comments that are stored.
ActsSound ==
    /\ IsFiniteSet(pending) /\ acts + Cardinality(pending) <= MaxActs
    /\ \A a \in pending : Stored(a)
    /\ \A i \in DOMAIN queue : Stored(queue[i])

\* A missing user is remembered only for a time since the account was missing.
MissingSound ==
    \A p \in People :
        /\ p \notin account => gone[p] = now
        /\ gone[p] # None => gone[p] <= now
        /\ users[p] # None /\ ~users[p].id /\ now < users[p].expires =>
             gone[p] # None /\ users[p].expires <= gone[p] + MissingTTL

NotifyInv ==
    /\ NotifyTypeOK
    /\ ToldOnce
    /\ DeliverySound
    /\ ActsSound
    /\ MissingSound

-----------------------------------------------------------------------------
(* Lemmas about the loop that collects.                                     *)

\* A set of numbers with a member has a least one.
LEMMA Least ==
    ASSUME NEW S, S \subseteq Nat, S # {}
    PROVE  \E m \in S : \A k \in S : m <= k
<1> DEFINE Less == {p \in Nat \X Nat : p[1] < p[2]}
<1>1. IsWellFoundedOn(Less, Nat)
  BY NatLessThanWellFounded DEF OpToRel
<1>2. PICK m \in S : \A k \in S : ~(<<k, m>> \in Less)
  BY <1>1, WFMin
<1>3. \A k \in S : m <= k
  <2>. SUFFICES ASSUME NEW k \in S PROVE m <= k
    OBVIOUS
  <2>1. ~(k < m)
    BY <1>2
  <2>. QED BY <2>1
<1>. QED BY <1>3

(* Induction, over the numbers for which a fact holds.                      *)
LEMMA Induction ==
    ASSUME NEW S, 0 \in S, \A n \in Nat : n \in S => n + 1 \in S
    PROVE  Nat \subseteq S
<1>. SUFFICES ASSUME NEW x \in Nat, x \notin S PROVE FALSE
  OBVIOUS
<1> DEFINE Bad == {n \in Nat : n \notin S}
<1>1. PICK m \in Bad : \A k \in Bad : m <= k
  <2>1. Bad \subseteq Nat /\ Bad # {}
    OBVIOUS
  <2>. QED BY <2>1, Least
<1>2. m \in Nat /\ m \notin S /\ m # 0 /\ m - 1 \in Nat /\ m - 1 < m
  OBVIOUS
<1>3. m - 1 \in S
  BY <1>1, <1>2
<1>. QED BY <1>2, <1>3

\* The recursive function exists: it satisfies its own equation, by induction over its domain.
LEMMA KeptUpToFact ==
    ASSUME NEW s, Len(s) \in Nat, NEW keep
    PROVE  KeptUpTo(s, keep) =
             [n \in 0..Len(s) |->
                IF n = 0 THEN <<>>
                ELSE IF n \in keep THEN Append(KeptUpTo(s, keep)[n-1], s[n])
                                   ELSE KeptUpTo(s, keep)[n-1]]
<1> DEFINE Body(f, m) == [n \in 0..m |->
                      IF n = 0 THEN <<>>
                      ELSE IF n \in keep THEN Append(f[n-1], s[n]) ELSE f[n-1]]
           Good == {m \in Nat : \E f : f = Body(f, m)}
<1>1. 0 \in Good
  <2> DEFINE g == [n \in 0..0 |-> <<>>]
  <2>1. g = Body(g, 0)
    OBVIOUS
  <2>. QED BY <2>1
<1>2. ASSUME NEW m \in Nat, m \in Good PROVE m + 1 \in Good
  <2>1. PICK f : f = Body(f, m)
    BY <1>2
  <2> DEFINE g == [n \in 0..(m+1) |-> IF n \in 0..m THEN f[n]
                                       ELSE IF n \in keep THEN Append(f[m], s[n]) ELSE f[m]]
  <2>2. ASSUME NEW n \in 0..(m+1)
        PROVE  g[n] = IF n = 0 THEN <<>>
                      ELSE IF n \in keep THEN Append(g[n-1], s[n]) ELSE g[n-1]
    <3>1. CASE n = m + 1
      <4>1. g[n] = IF n \in keep THEN Append(f[m], s[n]) ELSE f[m]
        BY <3>1
      <4>2. g[n-1] = f[m] /\ n # 0
        BY <3>1
      <4>. QED BY <4>1, <4>2
    <3>2. CASE n # m + 1
      <4>1. n \in 0..m /\ (n # 0 => n-1 \in 0..m) /\ n \in Nat
        BY <3>2
      <4>2. g[n] = f[n] /\ (n # 0 => g[n-1] = f[n-1])
        BY <4>1
      <4>3. f[n] = IF n = 0 THEN <<>>
                   ELSE IF n \in keep THEN Append(f[n-1], s[n]) ELSE f[n-1]
        BY <4>1, <2>1
      <4>. QED BY <4>2, <4>3
    <3>. QED BY <3>1, <3>2
  <2>3. g = [n \in 0..(m+1) |-> g[n]]
    OBVIOUS
  <2>4. g = Body(g, m+1)
    <3>. HIDE DEF g
    <3>. QED BY <2>2, <2>3
  <2>5. \E e : e = Body(e, m+1)
    BY <2>4
  <2>6. m + 1 \in Nat
    OBVIOUS
  <2>. HIDE DEF Body, g
  <2>. QED BY <2>5, <2>6
<1>3. \E f : f = Body(f, Len(s))
  <2>1. Nat \subseteq Good
    <3>. HIDE DEF Good
    <3>. QED BY <1>1, <1>2, Induction
  <2>. QED BY <2>1
<1>. QED BY <1>3 DEF KeptUpTo

(* q is the copy of the first m of s: the values at the positions of keep,  *)
(* each as often as there are such positions.                               *)
Copies(q, s, keep, m) ==
    /\ \A i \in 1..Len(q) : \E n \in 1..m : n \in keep /\ q[i] = s[n]
    /\ \A n \in 1..m : n \in keep => \E i \in 1..Len(q) : q[i] = s[n]
    /\ (\A n, k \in 1..m : n \in keep /\ k \in keep /\ n # k => s[n] # s[k]) =>
         \A i, j \in 1..Len(q) : i # j => q[i] # q[j]

\* One more position is copied.
LEMMA CopiesOne ==
    ASSUME NEW T, NEW s \in Seq(T), NEW keep, NEW m \in Nat, m + 1 <= Len(s),
           m + 1 \in keep, NEW q \in Seq(T), Copies(q, s, keep, m)
    PROVE  Append(q, s[m+1]) \in Seq(T) /\ Copies(Append(q, s[m+1]), s, keep, m+1)
<1>1. PICK x \in T : x = s[m+1]
  OBVIOUS
<1>2. PICK l \in Nat : l = Len(q)
  OBVIOUS
<1>3. PICK w : w = Append(q, x) /\ w \in Seq(T)
  <2>1. Append(q, x) \in Seq(T)
    OBVIOUS
  <2>. QED BY <2>1
<1>4. Len(w) = l + 1 /\ w[l+1] = x /\ \A i \in 1..l : w[i] = q[i]
  BY <1>2, <1>3
<1>5. ASSUME NEW i \in 1..(l+1) PROVE \E n \in 1..(m+1) : n \in keep /\ w[i] = s[n]
  <2>1. CASE i = l + 1
    BY <1>1, <1>4, <2>1
  <2>2. CASE i # l + 1
    <3>0. i \in 1..Len(q)
      BY <1>2, <2>2
    <3>1. PICK n \in 1..m : n \in keep /\ q[i] = s[n]
      BY <3>0 DEF Copies
    <3>2. n \in 1..(m+1) /\ w[i] = q[i]
      BY <1>4, <2>2
    <3>. QED BY <3>1, <3>2
  <2>. QED BY <2>1, <2>2
<1>6. ASSUME NEW n \in 1..(m+1), n \in keep PROVE \E i \in 1..(l+1) : w[i] = s[n]
  <2>1. CASE n = m + 1
    BY <1>1, <1>4, <2>1
  <2>2. CASE n # m + 1
    <3>1. PICK i \in 1..l : q[i] = s[n]
      BY <1>2, <1>6, <2>2 DEF Copies
    <3>2. i \in 1..(l+1) /\ w[i] = q[i]
      BY <1>4
    <3>. QED BY <3>1, <3>2
  <2>. QED BY <2>1, <2>2
<1>7. ASSUME \A n, k \in 1..(m+1) : n \in keep /\ k \in keep /\ n # k => s[n] # s[k],
             NEW i \in 1..(l+1), NEW j \in 1..(l+1), i # j
      PROVE  w[i] # w[j]
  <2>1. ASSUME NEW k \in 1..l PROVE w[k] # x
    <3>1. PICK n \in 1..m : n \in keep /\ q[k] = s[n]
      BY <1>2 DEF Copies
    <3>2. n \in 1..(m+1) /\ m + 1 \in 1..(m+1) /\ n # m + 1
      OBVIOUS
    <3>3. s[n] # s[m+1]
      BY <1>7, <3>1, <3>2
    <3>. QED BY <3>1, <3>3, <1>1, <1>4
  <2>2. ASSUME NEW a \in 1..l, NEW b \in 1..l, a # b PROVE w[a] # w[b]
    <3>1. \A n, k \in 1..m : n \in keep /\ k \in keep /\ n # k => s[n] # s[k]
      BY <1>7
    <3>2. q[a] # q[b]
      BY <1>2, <2>2, <3>1 DEF Copies
    <3>. QED BY <3>2, <1>4
  <2>3. (i \in 1..l \/ i = l + 1) /\ (j \in 1..l \/ j = l + 1)
    OBVIOUS
  <2>. QED BY <2>1, <2>2, <2>3, <1>4, <1>7
<1>8. Copies(w, s, keep, m+1)
  BY <1>4, <1>5, <1>6, <1>7 DEF Copies
<1>. QED BY <1>1, <1>3, <1>8

\* What is kept, of a sequence of any length: the values at the chosen positions, and no others.
LEMMA KeptFact ==
    ASSUME NEW T, NEW s \in Seq(T), NEW keep
    PROVE  Kept(s, keep) \in Seq(T) /\ Copies(Kept(s, keep), s, keep, Len(s))
<1>p. PICK f : f = KeptUpTo(s, keep)
  OBVIOUS
<1> DEFINE Good == {m \in Nat : m <= Len(s) => f[m] \in Seq(T) /\ Copies(f[m], s, keep, m)}
<1>0. Len(s) \in Nat
  OBVIOUS
<1>1. \A n \in 0..Len(s) : f[n] = IF n = 0 THEN <<>>
                                  ELSE IF n \in keep THEN Append(f[n-1], s[n]) ELSE f[n-1]
  <2>1. KeptUpTo(s, keep) =
             [n \in 0..Len(s) |->
                IF n = 0 THEN <<>>
                ELSE IF n \in keep THEN Append(KeptUpTo(s, keep)[n-1], s[n])
                                   ELSE KeptUpTo(s, keep)[n-1]]
    BY <1>0, KeptUpToFact
  <2>. QED BY <2>1, <1>p
<1>2. 0 \in Good
  <2>1. f[0] = <<>>
    BY <1>0, <1>1
  <2>2. <<>> \in Seq(T) /\ Copies(<<>>, s, keep, 0)
    BY DEF Copies
  <2>. QED BY <2>1, <2>2
<1>3. ASSUME NEW m \in Nat, m \in Good PROVE m + 1 \in Good
  <2>. SUFFICES ASSUME m + 1 <= Len(s) PROVE f[m+1] \in Seq(T) /\ Copies(f[m+1], s, keep, m+1)
    OBVIOUS
  <2>1. m + 1 \in 0..Len(s) /\ m + 1 # 0 /\ (m + 1) - 1 = m /\ m <= Len(s)
    BY <1>0
  <2>2. f[m+1] = IF m + 1 \in keep THEN Append(f[m], s[m+1]) ELSE f[m]
    BY <2>1, <1>1
  <2>3. f[m] \in Seq(T) /\ Copies(f[m], s, keep, m)
    BY <1>3, <2>1
  <2>4. CASE m + 1 \in keep
    BY <2>2, <2>3, <2>4, CopiesOne
  <2>5. CASE m + 1 \notin keep
    <3>1. Copies(f[m], s, keep, m+1)
      <4>1. \A n \in 1..(m+1) : n \in keep => n \in 1..m
        BY <2>5
      <4>2. 1..m \subseteq 1..(m+1)
        OBVIOUS
      <4>3. ASSUME NEW q, Copies(q, s, keep, m) PROVE Copies(q, s, keep, m+1)
        BY <4>1, <4>2, <4>3 DEF Copies
      <4>. QED BY <2>3, <4>3
    <3>. QED BY <3>1, <2>2, <2>3, <2>5
  <2>. QED BY <2>4, <2>5
<1>4. Nat \subseteq Good
  <2>. HIDE DEF Good
  <2>. QED BY <1>2, <1>3, Induction
<1>5. f[Len(s)] \in Seq(T) /\ Copies(f[Len(s)], s, keep, Len(s))
  BY <1>0, <1>4
<1>. QED BY <1>p, <1>5 DEF Kept
-----------------------------------------------------------------------------
\* None is none of the values.
LEMMA NotifyNoneFact ==
    /\ None \notin User /\ None \notin Delivery /\ None \notin Outcomes /\ None \notin Nat
    /\ MaxTime \in Nat /\ MaxComments \in Nat \ {0} /\ MaxActs \in Nat /\ MaxFlips \in Nat
    /\ Attempts \in Nat \ {0} /\ QueueSize \in Nat \ {0}
    /\ MissingTTL \in Nat /\ UserTTL \in Nat /\ Owner \in People /\ Starter \in People
BY NotifyNoneAssumption, NotifyAssumption, SlackAssumption

\* Comments are numbered without gaps.
LEMMA IdsFact ==
    ASSUME NotifyTypeOK
    PROVE  /\ Ids = 1..Len(comments) /\ Len(comments) \in Nat /\ Ids \subseteq Indices
           /\ \A i \in Ids : comments[i] \in Comment
BY NotifyNoneFact DEF NotifyTypeOK, Ids, Indices

LEMMA RunFact ==
    ASSUME NotifyInv, NEW step, RunAt(step)
    PROVE  /\ delivery \in Delivery /\ delivery # None /\ delivery.step = step /\ Stored(delivery.act)
           /\ step \in Sending => Underway(delivery)
           /\ step \notin Sending => Fresh
           /\ delivery.act \in Activity /\ delivery.rest \in Seq(People) /\ delivery.try \in 1..Attempts
BY DEF NotifyInv, NotifyTypeOK, DeliverySound, RunAt, Delivery

\* The initial states satisfy the invariant.
LEMMA NotifyInitInv == NotifyInit => NotifyInv
<1>. SUFFICES ASSUME NotifyInit PROVE NotifyInv
  OBVIOUS
<1>1. NotifyTypeOK
  <2>1. comments \in Seq(Comment) /\ Len(comments) = 1
    BY NotifyNoneFact DEF NotifyInit, Comment, Indices
  <2>2. gone \in [People -> 0..MaxTime \cup {None}]
    BY NotifyNoneFact DEF NotifyInit
  <2>3. told \in [People -> 0..Attempts] /\ unsure \in [People -> 0..Attempts]
    BY NotifyNoneFact DEF NotifyInit
  <2>. QED BY <2>1, <2>2, <2>3, NotifyNoneFact, NotifyAssumption DEF NotifyInit, NotifyTypeOK
<1>2. ToldOnce /\ DeliverySound
  BY DEF NotifyInit, ToldOnce, DeliverySound, Fresh
<1>3. ActsSound
  BY FS_EmptySet, NotifyNoneFact DEF NotifyInit, ActsSound
<1>4. MissingSound
  BY NotifyNoneFact DEF NotifyInit, MissingSound
<1>. QED BY <1>1, <1>2, <1>3, <1>4 DEF NotifyInv

-----------------------------------------------------------------------------
(* Comments are written.                                                    *)

\* Comments are added at the end, and what was deleted stays so.
Grows ==
    /\ comments' \in Seq(Comment) /\ Len(comments) <= Len(comments') /\ Len(comments') <= MaxComments
    /\ \A i \in Ids : /\ comments'[i].thread = comments[i].thread
                      /\ comments'[i].author = comments[i].author
                      /\ comments[i].deleted => comments'[i].deleted

\* What an activity says of the comments stays true of the comments that follow.
LEMMA StoredKeeps ==
    ASSUME NotifyTypeOK, NEW a \in Activity, Stored(a), Grows
    PROVE  Stored(a)'
<1>1. Ids = 1..Len(comments) /\ Len(comments) \in Nat
  BY IdsFact
<1>2. Ids' = 1..Len(comments') /\ Len(comments') \in Nat /\ Len(comments) <= Len(comments')
  BY DEF Grows, Ids
<1>3. a.comment \in Ids /\ a.comment \in Ids' /\ comments'[a.comment].thread = comments[a.comment].thread
  BY <1>1, <1>2 DEF Grows, Stored
<1>4. PICK t : t = comments[a.comment].thread
  OBVIOUS
<1>5. \A i \in a.live : i \in Ids' /\ comments'[i].thread = t
  BY <1>1, <1>2, <1>4 DEF Stored, Grows
<1>6. ASSUME a.kind = "reply_created", NEW i \in Ids', comments'[i].thread = t,
             ~comments'[i].deleted, i <= a.comment
      PROVE  i \in a.live
  <2>1. i \in Ids
    BY <1>1, <1>2, <1>3, <1>6
  <2>. QED BY <1>4, <1>6, <2>1 DEF Stored, Grows
<1>7. a.kind \in {"thread_resolved", "thread_reopened"} => a.comment \in a.live
  BY DEF Stored
<1>. QED BY <1>3, <1>4, <1>5, <1>6, <1>7 DEF Stored

\* A write by the service: it may announce an activity of the comment, and leaves delivery alone.
LEMMA WriteStep ==
    ASSUME NotifyInv, Listening, Grows, resolved' \in SUBSET Indices,
           pending' \in SUBSET Activity, IsFiniteSet(pending'),
           acts + Cardinality(pending') <= MaxActs,
           \A a \in pending' : a \in pending \/ Stored(a)',
           UNCHANGED <<acts, queue, delivery, users, accounts, tally>>
    PROVE  NotifyInv'
<1>1. UNCHANGED <<acts, queue, delivery, users, now, account, flips, gone, told, unsure, over>>
  BY DEF accounts, tally
<1>2. NotifyTypeOK'
  BY <1>1 DEF NotifyInv, NotifyTypeOK, Grows
<1>3. ToldOnce' /\ MissingSound'
  BY <1>1 DEF NotifyInv, ToldOnce, MissingSound
<1>4. \A a \in Activity : Stored(a) => Stored(a)'
  BY StoredKeeps DEF NotifyInv
<1>5. ActsSound'
  <2>1. \A a \in pending' : Stored(a)'
    BY <1>4 DEF NotifyInv, ActsSound, NotifyTypeOK
  <2>2. \A i \in DOMAIN queue : queue[i] \in Activity
    BY DEF NotifyInv, NotifyTypeOK
  <2>3. \A i \in DOMAIN queue : Stored(queue[i])'
    <3>. SUFFICES ASSUME NEW i \in DOMAIN queue PROVE Stored(queue[i])'
      OBVIOUS
    <3>1. PICK a \in Activity : a = queue[i]
      BY <2>2
    <3>2. Stored(a)'
      BY <1>4, <3>1 DEF NotifyInv, ActsSound
    <3>3. a = queue'[i]
      BY <1>1, <3>1
    <3>. QED BY <1>1, <3>2, <3>3
  <2>. QED BY <1>1, <2>1, <2>3 DEF ActsSound
<1>6. DeliverySound'
  <2>1. delivery = None \/ (delivery \in Delivery /\ delivery.act \in Activity
                             /\ delivery.step \in {"artifact", "thread"})
    BY DEF Listening, RunAt, NotifyInv, NotifyTypeOK, Delivery
  <2>2. delivery # None => Stored(delivery.act)'
    <3>. SUFFICES ASSUME delivery # None PROVE Stored(delivery.act)'
      OBVIOUS
    <3>1. PICK a \in Activity : a = delivery.act
      BY <2>1
    <3>2. Stored(a)'
      BY <1>4, <3>1 DEF NotifyInv, DeliverySound
    <3>3. a = delivery'.act
      BY <1>1, <3>1
    <3>. QED BY <1>1, <3>2, <3>3
  <2>3. Fresh'
    BY <1>1, <2>1 DEF NotifyInv, DeliverySound, Fresh, Sending
  <2>. QED BY <1>1, <2>1, <2>2, <2>3 DEF DeliverySound, Sending
<1>. QED BY <1>2, <1>3, <1>5, <1>6 DEF NotifyInv

\* The live comments of a thread are comments of the thread.
LEMMA LiveFact ==
    ASSUME NotifyTypeOK, NEW cs \in Seq(Comment), Len(cs) <= MaxComments, NEW t
    PROVE  Live(cs, t) \in SUBSET Indices /\ \A i \in Live(cs, t) : i \in DOMAIN cs /\ cs[i].thread = t
<1>1. DOMAIN cs = 1..Len(cs) /\ Len(cs) \in Nat
  OBVIOUS
<1>. QED BY <1>1, NotifyNoneFact DEF Live, Indices

\* An activity that is announced can still be counted.
LEMMA PendingFact ==
    ASSUME NotifyInv, NEW a \in Activity, acts + Cardinality(pending) < MaxActs,
           pending' = pending \cup {a}
    PROVE  pending' \in SUBSET Activity /\ IsFiniteSet(pending') /\ acts + Cardinality(pending') <= MaxActs
<1>1. IsFiniteSet(pending) /\ pending \in SUBSET Activity /\ acts \in Nat
  BY DEF NotifyInv, ActsSound, NotifyTypeOK
<1>2. Cardinality(pending) \in Nat
  BY <1>1, FS_CardinalityType
<1>3. IsFiniteSet(pending') /\ (Cardinality(pending') = Cardinality(pending) \/ Cardinality(pending') = Cardinality(pending) + 1)
  BY <1>1, FS_AddElement
<1>. QED BY <1>1, <1>2, <1>3, NotifyNoneFact

\* The writes that announce an activity keep the invariant.
LEMMA WritesFact ==
    ASSUME NotifyInv, Listening, NEW kind \in {"thread_created", "reply_created"}, NEW p \in People,
           NEW t \in 1..(Len(comments) + 1), Writes(kind, p, t)
    PROVE  NotifyInv'
<1>0. /\ comments \in Seq(Comment) /\ Len(comments) \in Nat /\ Ids = 1..Len(comments)
      /\ Len(comments) < MaxComments /\ MaxComments \in Nat
  BY IdsFact, NotifyNoneFact DEF NotifyInv, NotifyTypeOK, Writes
<1>1. PICK c : c = [thread |-> t, author |-> p, deleted |-> FALSE]
  OBVIOUS
<1>2. c \in Comment
  BY <1>0, <1>1, NotifyNoneFact DEF Comment, Indices
<1>3. PICK cs : cs = Append(comments, c)
  OBVIOUS
<1>4. /\ cs \in Seq(Comment) /\ Len(cs) = Len(comments) + 1 /\ cs[Len(comments) + 1] = c
      /\ \A i \in 1..Len(comments) : cs[i] = comments[i]
  BY <1>0, <1>2, <1>3
<1>5. comments' = cs /\ Stores(kind, p, Len(cs), cs) /\ UNCHANGED resolved
  BY <1>1, <1>3 DEF Writes
<1>6. Grows
  BY <1>0, <1>4, <1>5 DEF Grows
<1>7. PICK a : a = [kind |-> kind, actor |-> p, comment |-> Len(cs), live |-> Live(cs, cs[Len(cs)].thread)]
  OBVIOUS
<1>8. cs[Len(cs)].thread = t
  BY <1>1, <1>4
<1>9. /\ Live(cs, t) \in SUBSET Indices
      /\ \A i \in Live(cs, t) : i \in DOMAIN cs /\ cs[i].thread = t
  BY <1>0, <1>4, LiveFact DEF NotifyInv
<1>10. a \in Activity
  <2>1. Len(cs) \in Indices
    BY <1>0, <1>4, NotifyNoneFact DEF Indices
  <2>. QED BY <1>7, <1>8, <1>9, <2>1 DEF Activity, Kinds
<1>11. Stored(a)'
  <2>1. Ids' = DOMAIN cs /\ DOMAIN cs = 1..Len(cs) /\ Len(cs) \in Ids'
    BY <1>0, <1>4, <1>5 DEF Ids
  <2>2. a.comment = Len(cs) /\ a.live = Live(cs, t) /\ a.kind = kind
    BY <1>7, <1>8
  <2>3. \A i \in DOMAIN cs : cs[i].thread = t /\ ~cs[i].deleted => i \in a.live
    BY <2>2 DEF Live
  <2>. QED BY <1>5, <1>8, <1>9, <2>1, <2>2, <2>3 DEF Stored
<1>12. pending' = pending \cup {a} /\ acts + Cardinality(pending) < MaxActs
  BY <1>5, <1>7 DEF Stores
<1>13. /\ pending' \in SUBSET Activity /\ IsFiniteSet(pending')
       /\ acts + Cardinality(pending') <= MaxActs
  BY <1>10, <1>12, PendingFact
<1>14. resolved' \in SUBSET Indices
  BY <1>5 DEF NotifyInv, NotifyTypeOK
<1>15. \A x \in pending' : x \in pending \/ Stored(x)'
  BY <1>11, <1>12
<1>. QED BY <1>5, <1>6, <1>13, <1>14, <1>15, WriteStep DEF Stores

(* A thread is resolved or reopened.                                        *)
LEMMA SettleFact ==
    ASSUME NotifyInv, Listening, NEW kind \in {"thread_resolved", "thread_reopened"}, NEW p \in People,
           NEW t \in Ids, Open(t), resolved' = resolved \cup {t} \/ resolved' = resolved \ {t},
           Stores(kind, p, t, comments), UNCHANGED comments
    PROVE  NotifyInv'
<1>0. /\ comments \in Seq(Comment) /\ Len(comments) \in Nat /\ Ids = 1..Len(comments)
      /\ Len(comments) <= MaxComments /\ Ids \subseteq Indices /\ t \in DOMAIN comments
  BY IdsFact DEF NotifyInv, NotifyTypeOK, Ids
<1>1. Grows
  BY <1>0 DEF Grows
<1>2. comments[t].thread = t /\ ~comments[t].deleted
  BY DEF Open
<1>3. PICK a : a = [kind |-> kind, actor |-> p, comment |-> t, live |-> Live(comments, comments[t].thread)]
  OBVIOUS
<1>4. /\ Live(comments, t) \in SUBSET Indices
      /\ \A i \in Live(comments, t) : i \in DOMAIN comments /\ comments[i].thread = t
  BY <1>0, LiveFact DEF NotifyInv
<1>5. a \in Activity
  BY <1>0, <1>2, <1>3, <1>4 DEF Activity, Kinds
<1>6. a.comment = t /\ a.live = Live(comments, t) /\ a.kind = kind
  BY <1>2, <1>3
<1>7. t \in a.live
  BY <1>0, <1>2, <1>6 DEF Live
<1>8. Stored(a)'
  BY <1>0, <1>2, <1>4, <1>6, <1>7 DEF Stored, Ids
<1>9. pending' = pending \cup {a} /\ acts + Cardinality(pending) < MaxActs
  BY <1>3 DEF Stores
<1>10. /\ pending' \in SUBSET Activity /\ IsFiniteSet(pending')
       /\ acts + Cardinality(pending') <= MaxActs
  BY <1>5, <1>9, PendingFact
<1>11. resolved' \in SUBSET Indices
  BY <1>0 DEF NotifyInv, NotifyTypeOK
<1>12. \A x \in pending' : x \in pending \/ Stored(x)'
  BY <1>8, <1>9
<1>. QED BY <1>1, <1>10, <1>11, <1>12, WriteStep DEF Stores

\* Deleting a comment keeps the invariant: an activity remembers the comments that were live.
LEMMA DeleteFact == ASSUME NotifyInv, Listening, NEW d \in Ids, Delete(d) PROVE NotifyInv'
<1>0. /\ comments \in Seq(Comment) /\ Len(comments) \in Nat /\ Ids = 1..Len(comments)
      /\ Len(comments) <= MaxComments /\ Ids = DOMAIN comments /\ comments[d] \in Comment
  BY IdsFact DEF NotifyInv, NotifyTypeOK, Ids
<1>1. PICK c : c = [comments[d] EXCEPT !.deleted = TRUE]
  OBVIOUS
<1>2. c \in Comment /\ c.thread = comments[d].thread /\ c.author = comments[d].author /\ c.deleted = TRUE
  BY <1>0, <1>1 DEF Comment
<1>3. comments' = [comments EXCEPT ![d] = c]
  BY <1>1 DEF Delete
<1>4. comments' \in Seq(Comment) /\ Len(comments') = Len(comments)
  BY <1>0, <1>2, <1>3
<1>5. \A i \in Ids : comments'[i] = IF i = d THEN c ELSE comments[i]
  BY <1>0, <1>3
<1>6. Grows
  BY <1>0, <1>2, <1>4, <1>5 DEF Grows
<1>7. UNCHANGED <<resolved, pending, acts, queue, delivery, users, accounts, tally>>
  BY DEF Delete
<1>. QED BY <1>6, <1>7, WriteStep DEF NotifyInv, NotifyTypeOK, ActsSound

\* The queue takes an activity, or drops it when it is full.
LEMMA EmitFact == ASSUME NotifyInv, NEW a \in pending, Emit(a) PROVE NotifyInv'
<1>0. /\ IsFiniteSet(pending) /\ pending \in SUBSET Activity /\ acts \in Nat
      /\ acts + Cardinality(pending) <= MaxActs /\ MaxActs \in Nat /\ QueueSize \in Nat \ {0}
      /\ a \in Activity /\ Stored(a)
  BY NotifyNoneFact DEF NotifyInv, ActsSound, NotifyTypeOK
<1>1. UNCHANGED <<comments, resolved, delivery, users, now, account, flips, gone, told, unsure, over>>
  BY DEF Emit, accounts, tally
<1>2. pending' = pending \ {a} /\ acts' = acts + 1
  BY DEF Emit
<1>3. Cardinality(pending) \in Nat /\ IsFiniteSet(pending') /\ Cardinality(pending') = Cardinality(pending) - 1
  BY <1>0, <1>2, FS_CardinalityType, FS_RemoveElement
<1>4. acts' + Cardinality(pending') <= MaxActs /\ acts' \in 0..MaxActs
  <2>1. Cardinality(pending') \in Nat
    BY <1>3, FS_CardinalityType
  <2>. QED BY <1>0, <1>2, <1>3, <2>1
<1>5. /\ queue' \in Seq(Activity) /\ Len(queue') <= QueueSize
      /\ \A i \in DOMAIN queue' : queue'[i] = a \/ (i \in DOMAIN queue /\ queue'[i] = queue[i])
  <2>1. queue \in Seq(Activity) /\ Len(queue) <= QueueSize /\ Len(queue) \in Nat
    BY DEF NotifyInv, NotifyTypeOK
  <2>2. CASE Len(queue) < QueueSize
    <3>1. PICK q : q = Append(queue, a)
      OBVIOUS
    <3>2. /\ q \in Seq(Activity) /\ Len(q) = Len(queue) + 1 /\ q[Len(queue) + 1] = a
          /\ \A i \in 1..Len(queue) : q[i] = queue[i]
      BY <1>0, <2>1, <3>1
    <3>3. queue' = q
      BY <2>2, <3>1 DEF Emit
    <3>4. \A i \in DOMAIN q : i = Len(queue) + 1 \/ i \in DOMAIN queue
      BY <2>1, <3>2
    <3>. QED BY <1>0, <2>1, <2>2, <3>2, <3>3, <3>4
  <2>3. CASE ~(Len(queue) < QueueSize)
    BY <2>1, <2>3 DEF Emit
  <2>. QED BY <2>2, <2>3
<1>6. NotifyTypeOK'
  BY <1>0, <1>1, <1>2, <1>4, <1>5 DEF NotifyInv, NotifyTypeOK
<1>7. ToldOnce' /\ MissingSound'
  BY <1>1 DEF NotifyInv, ToldOnce, MissingSound
<1>8. \A x : Stored(x) <=> Stored(x)'
  BY <1>1 DEF Stored, Ids
<1>9. ActsSound'
  BY <1>0, <1>2, <1>3, <1>4, <1>5, <1>8 DEF NotifyInv, ActsSound
<1>10. DeliverySound'
  BY <1>1, <1>8 DEF NotifyInv, DeliverySound, Fresh, Underway, MayHear, MustHear, Ids
<1>. QED BY <1>6, <1>7, <1>9, <1>10 DEF NotifyInv

-----------------------------------------------------------------------------
(* Run.                                                                     *)

\* While no comment is written, what activities say of the comments stands.
LEMMA StoredStands ==
    ASSUME UNCHANGED comments
    PROVE  \A x : Stored(x) <=> Stored(x)'
BY DEF Stored, Ids

(* A step of Run at an activity it keeps, or comes back from.               *)
LEMMA RunStep ==
    ASSUME NotifyInv, NEW d \in Delivery \cup {None}, delivery' = d,
           told' \in [People -> 0..Attempts], unsure' \in [People -> 0..Attempts],
           over' \in [People -> Outcomes \cup {None}], ToldOnce',
           users' \in [People -> User \cup {None}], MissingSound',
           d # None => Stored(d.act),
           d # None /\ d.step \in Sending => Underway(d)',
           d = None \/ d.step \notin Sending => Fresh',
           UNCHANGED <<store, acts, queue, accounts>>
    PROVE  NotifyInv'
<1>1. UNCHANGED <<comments, resolved, pending, acts, queue, now, account, flips, gone>>
  BY DEF store, accounts
<1>2. NotifyTypeOK'
  BY <1>1 DEF NotifyInv, NotifyTypeOK
<1>3. ActsSound'
  BY <1>1, StoredStands DEF NotifyInv, ActsSound
<1>4. DeliverySound'
  <2>1. d # None => Stored(d.act)'
    BY <1>1, StoredStands
  <2>. QED BY <2>1 DEF DeliverySound
<1>. QED BY <1>2, <1>3, <1>4 DEF NotifyInv

\* A step of delivery with nobody being told anything yet.
LEMMA QuietRun ==
    ASSUME NotifyInv, NEW d \in Delivery, delivery' = d, Stored(d.act),
           d.step \in Sending => Underway(d),
           d.step \notin Sending => Fresh,
           UNCHANGED <<store, acts, queue, users, accounts, tally>>
    PROVE  NotifyInv'
<1>1. UNCHANGED <<comments, resolved, pending, acts, queue, users, now, account, flips, gone,
                  told, unsure, over>>
  BY DEF store, accounts, tally
<1>2. d.step \in Sending => Underway(d)'
  BY <1>1 DEF Underway, MayHear, MustHear, Ids
<1>3. d.step \notin Sending => Fresh'
  BY <1>1 DEF Fresh
<1>4. /\ told' \in [People -> 0..Attempts] /\ unsure' \in [People -> 0..Attempts]
      /\ over' \in [People -> Outcomes \cup {None}] /\ users' \in [People -> User \cup {None}]
      /\ ToldOnce' /\ MissingSound'
  BY <1>1 DEF NotifyInv, NotifyTypeOK, ToldOnce, MissingSound
<1>. QED BY <1>2, <1>3, <1>4, RunStep, NotifyNoneFact

\* The dispatcher goes back to waiting: for nobody, nothing has been sent.
LEMMA WaitsFact ==
    ASSUME NotifyInv, Waits, UNCHANGED <<store, acts, queue, users, accounts>>
    PROVE  NotifyInv'
<1>1. UNCHANGED <<users, now, account, gone>>
  BY DEF accounts
<1>2. users' \in [People -> User \cup {None}] /\ MissingSound'
  BY <1>1 DEF NotifyInv, NotifyTypeOK, MissingSound
<1>3. /\ told' \in [People -> 0..Attempts] /\ unsure' \in [People -> 0..Attempts]
      /\ over' \in [People -> Outcomes \cup {None}] /\ ToldOnce' /\ Fresh'
  BY NotifyNoneFact DEF Waits, ToldOnce, Fresh
<1>. QED BY <1>2, <1>3, RunStep DEF Waits

\* Taking an activity off the queue keeps the invariant.
LEMMA DequeueFact == ASSUME NotifyInv, Dequeue PROVE NotifyInv'
<1>0. /\ queue \in Seq(Activity) /\ queue # <<>> /\ Len(queue) \in Nat \ {0} /\ Len(queue) <= QueueSize
      /\ QueueSize \in Nat
  BY NotifyNoneFact DEF NotifyInv, NotifyTypeOK, Dequeue
<1>1. UNCHANGED <<comments, resolved, pending, acts, users, now, account, flips, gone, told, unsure, over>>
  BY DEF Dequeue, store, accounts, tally
<1>2. PICK q : q = Tail(queue)
  OBVIOUS
<1>3. /\ q \in Seq(Activity) /\ Len(q) = Len(queue) - 1 /\ \A i \in 1..Len(q) : q[i] = queue[i+1]
      /\ queue' = q
  BY <1>0, <1>2 DEF Dequeue
<1>4. PICK a \in Activity : a = Head(queue) /\ a = queue[1]
  BY <1>0
<1>5. PICK d : d = [step |-> "artifact", act |-> a, rest |-> <<>>, try |-> 1]
  OBVIOUS
<1>6. d \in Delivery /\ delivery' = d /\ d.act = a /\ d.step = "artifact" /\ d # None
  <2>1. 1 \in 1..Attempts /\ <<>> \in Seq(People)
    BY NotifyNoneFact
  <2>2. d \in Delivery
    BY <1>5, <2>1 DEF Delivery
  <2>. QED BY <1>4, <1>5, <2>2, NotifyNoneFact DEF Dequeue
<1>7. NotifyTypeOK'
  BY <1>0, <1>1, <1>3, <1>6 DEF NotifyInv, NotifyTypeOK
<1>8. \A x : Stored(x) <=> Stored(x)'
  BY <1>1, StoredStands
<1>9. Stored(a) /\ Fresh
  BY <1>0, <1>4 DEF NotifyInv, ActsSound, DeliverySound, Dequeue
<1>10. ActsSound'
  <2>1. \A i \in DOMAIN q : Stored(q[i])
    <3>. SUFFICES ASSUME NEW i \in DOMAIN q PROVE Stored(q[i])
      OBVIOUS
    <3>1. i + 1 \in DOMAIN queue /\ q[i] = queue[i+1]
      BY <1>0, <1>3
    <3>. QED BY <3>1 DEF NotifyInv, ActsSound
  <2>. QED BY <1>1, <1>3, <1>8, <2>1 DEF NotifyInv, ActsSound
<1>11. DeliverySound'
  BY <1>1, <1>6, <1>8, <1>9 DEF DeliverySound, Sending, Fresh
<1>12. ToldOnce' /\ MissingSound'
  BY <1>1 DEF NotifyInv, ToldOnce, MissingSound
<1>. QED BY <1>7, <1>10, <1>11, <1>12 DEF NotifyInv

\* The candidates may all hear, and all who must hear are among them.
LEMMA CandidatesFact ==
    ASSUME NotifyTypeOK, NEW a \in Activity, Stored(a)
    PROVE  /\ Candidates(a) \in Seq(People)
           /\ \A i \in DOMAIN Candidates(a) : Candidates(a)[i] # a.actor => MayHear(Candidates(a)[i], a)
           /\ \A p \in People : MustHear(p, a) => \E i \in DOMAIN Candidates(a) : Candidates(a)[i] = p
<1>0. /\ Ids = DOMAIN comments /\ Ids = 1..Len(comments) /\ Len(comments) \in Nat
      /\ comments \in Seq(Comment) /\ \A i \in Ids : comments[i] \in Comment /\ comments[i].author \in People
  BY IdsFact DEF Ids, Comment, NotifyTypeOK
<1>1. a.comment \in Ids /\ a.kind \in Kinds /\ Owner \in People
  BY NotifyNoneFact DEF Stored, Activity
<1>2. CASE a.kind = "thread_created"
  <2>1. Candidates(a) = <<Owner>>
    BY <1>2 DEF Candidates
  <2>. QED BY <1>1, <1>2, <2>1 DEF MayHear, MustHear
<1>3. CASE a.kind \in {"thread_resolved", "thread_reopened"}
  <2>1. Candidates(a) = <<comments[a.comment].author>>
    BY <1>3 DEF Candidates
  <2>2. a.comment \in a.live
    BY <1>3 DEF Stored
  <2>. QED BY <1>0, <1>1, <1>3, <2>1, <2>2 DEF MayHear, MustHear
<1>4. CASE a.kind = "reply_created"
  <2>1. PICK t : t = comments[a.comment].thread
    OBVIOUS
  <2>2. PICK live : live = Live(comments, t)
    OBVIOUS
  <2>3. PICK s : s = InThread(a)
    OBVIOUS
  <2>4. s \in Seq(Comment) /\ Copies(s, comments, live, Len(comments))
    BY <1>0, <2>1, <2>2, <2>3, KeptFact DEF InThread
  <2>5. \A i \in Ids : i \in live <=> comments[i].thread = t /\ ~comments[i].deleted
    BY <1>0, <2>2 DEF Live
  <2>6. PICK w : w = [i \in DOMAIN s |-> s[i].author]
    OBVIOUS
  <2>7. w \in Seq(People) /\ Len(w) = Len(s) /\ Len(s) \in Nat /\ \A i \in 1..Len(s) : w[i] = s[i].author
    <3>1. DOMAIN s = 1..Len(s) /\ Len(s) \in Nat /\ \A i \in 1..Len(s) : s[i] \in Comment
      BY <2>4
    <3>2. \A i \in 1..Len(s) : s[i].author \in People
      BY <3>1 DEF Comment
    <3>3. w \in [1..Len(s) -> People]
      BY <2>6, <3>1, <3>2
    <3>4. w \in Seq(People) /\ Len(w) = Len(s)
      BY <3>1, <3>3
    <3>. QED BY <2>6, <3>1, <3>4
  <2>8. PICK c : c = <<Owner>> \o w
    OBVIOUS
  <2>9. Candidates(a) = c
    BY <1>4, <2>3, <2>6, <2>8 DEF Candidates
  <2>10. /\ c \in Seq(People) /\ Len(c) = Len(w) + 1 /\ c[1] = Owner
         /\ \A i \in 1..Len(w) : c[i+1] = w[i]
    BY <1>1, <2>7, <2>8
  <2>11. ASSUME NEW i \in DOMAIN c, c[i] # a.actor PROVE MayHear(c[i], a)
    <3>1. CASE i = 1
      BY <2>10, <2>11, <3>1 DEF MayHear
    <3>2. CASE i # 1
      <4>1. i - 1 \in 1..Len(w) /\ i - 1 \in 1..Len(s) /\ (i - 1) + 1 = i
        BY <2>7, <2>10, <3>2
      <4>2. c[i] = s[i-1].author
        BY <2>7, <2>10, <4>1
      <4>3. PICK n \in 1..Len(comments) : n \in live /\ s[i-1] = comments[n]
        BY <2>4, <4>1 DEF Copies
      <4>4. n \in Ids /\ comments[n].thread = t /\ ~comments[n].deleted /\ comments[n].author = c[i]
        BY <1>0, <2>5, <4>2, <4>3
      <4>5. n \in a.live \/ n > a.comment
        <5>1. n <= a.comment \/ n > a.comment
          BY <1>0, <1>1
        <5>. QED BY <1>4, <2>1, <4>4, <5>1 DEF Stored
      <4>. QED BY <2>1, <2>11, <4>4, <4>5 DEF MayHear
    <3>. QED BY <3>1, <3>2
  <2>12. ASSUME NEW p \in People, MustHear(p, a) PROVE \E i \in DOMAIN c : c[i] = p
    <3>1. CASE p = Owner
      <4>1. 1 \in DOMAIN c
        BY <2>7, <2>10
      <4>. QED BY <2>10, <3>1, <4>1
    <3>2. CASE p # Owner
      <4>1. PICK n \in a.live : ~comments[n].deleted /\ comments[n].author = p
        BY <1>4, <2>12, <3>2 DEF MustHear
      <4>2. n \in Ids /\ n \in live
        BY <2>1, <2>5, <4>1 DEF Stored
      <4>3. PICK i \in 1..Len(s) : s[i] = comments[n]
        BY <1>0, <2>4, <4>2 DEF Copies
      <4>4. i + 1 \in DOMAIN c /\ c[i+1] = p
        BY <2>7, <2>10, <4>1, <4>3
      <4>. QED BY <4>4
    <3>. QED BY <3>1, <3>2
  <2>. QED BY <2>9, <2>10, <2>11, <2>12
<1>. QED BY <1>1, <1>2, <1>3, <1>4 DEF Kinds

\* The recipients are the candidates, each once and without the actor.
LEMMA RecipientsFact ==
    ASSUME NotifyTypeOK, NEW a \in Activity, Stored(a)
    PROVE  /\ Recipients(a) \in Seq(People) /\ Once(Recipients(a))
           /\ \A p \in To(Recipients(a)) : MayHear(p, a)
           /\ \A p \in People : MustHear(p, a) => p \in To(Recipients(a))
<1>1. PICK c : c = Candidates(a)
  OBVIOUS
<1>2. /\ c \in Seq(People) /\ Len(c) \in Nat /\ DOMAIN c = 1..Len(c)
      /\ \A i \in DOMAIN c : c[i] # a.actor => MayHear(c[i], a)
      /\ \A p \in People : MustHear(p, a) => \E i \in DOMAIN c : c[i] = p
  BY <1>1, CandidatesFact
<1>3. PICK keep : keep = {i \in DOMAIN c : c[i] # a.actor /\ \A j \in 1..(i-1) : c[j] # c[i]}
  OBVIOUS
<1>4. PICK r : r = Recipients(a)
  OBVIOUS
<1>5. r \in Seq(People) /\ Copies(r, c, keep, Len(c))
  BY <1>1, <1>2, <1>3, <1>4, KeptFact DEF Recipients
<1>6. Once(r)
  <2>1. ASSUME NEW n \in 1..Len(c), NEW k \in 1..Len(c), n \in keep, k \in keep, n # k
        PROVE  c[n] # c[k]
    <3>1. n \in 1..(k-1) \/ k \in 1..(n-1)
      BY <1>2, <2>1
    <3>. QED BY <1>3, <2>1, <3>1
  <2>2. \A n, k \in 1..Len(c) : n \in keep /\ k \in keep /\ n # k => c[n] # c[k]
    BY <2>1
  <2>3. \A i, j \in 1..Len(r) : i # j => r[i] # r[j]
    BY <1>5, <2>2, Zenon DEF Copies
  <2>4. DOMAIN r = 1..Len(r)
    BY <1>5
  <2>. QED BY <2>3, <2>4, Zenon DEF Once
<1>7. ASSUME NEW p \in To(r) PROVE MayHear(p, a)
  <2>1. PICK i \in 1..Len(r) : p = r[i]
    BY <1>5 DEF To
  <2>2. PICK n \in 1..Len(c) : n \in keep /\ r[i] = c[n]
    BY <1>5 DEF Copies
  <2>. QED BY <1>2, <1>3, <2>1, <2>2
<1>8. ASSUME NEW p \in People, MustHear(p, a) PROVE p \in To(r)
  <2> DEFINE S == {i \in DOMAIN c : c[i] = p}
  <2>1. S \subseteq Nat /\ S # {}
    BY <1>2, <1>8
  <2>2. PICK m \in S : \A k \in S : m <= k
    <3>. HIDE DEF S
    <3>. QED BY <2>1, Least
  <2>3. m \in DOMAIN c /\ c[m] = p /\ \A j \in 1..(m-1) : c[j] # p
    <3>1. m \in 1..Len(c)
      BY <1>2
    <3>2. ASSUME NEW j \in 1..(m-1), c[j] = p PROVE FALSE
      <4>1. j \in S /\ j < m
        BY <1>2, <3>1, <3>2
      <4>. QED BY <2>2, <3>1, <4>1
    <3>. QED BY <3>2
  <2>4. m \in keep
    BY <1>3, <1>8, <2>3 DEF MustHear
  <2>5. PICK i \in 1..Len(r) : r[i] = c[m]
    BY <1>2, <1>5, <2>3, <2>4 DEF Copies
  <2>. QED BY <1>5, <2>3, <2>5 DEF To
<1>. QED BY <1>4, <1>5, <1>6, <1>7, <1>8

\* Working out the recipients keeps the invariant.
LEMMA LookUpFact == ASSUME NotifyInv, LookUp PROVE NotifyInv'
<1>0. /\ delivery \in Delivery /\ delivery # None /\ delivery.step \in {"artifact", "thread"}
      /\ Stored(delivery.act) /\ Fresh /\ delivery.act \in Activity
  BY RunFact DEF LookUp, RunAt, Sending
<1>1. UNCHANGED <<store, acts, queue, users, accounts>>
  BY DEF LookUp
<1>2. CASE Waits
  BY <1>1, <1>2, WaitsFact
<1>3. CASE RunTo("thread")
  <2>1. PICK d : d = [delivery EXCEPT !.step = "thread"]
    OBVIOUS
  <2>2. d \in Delivery /\ d.step = "thread" /\ d.act = delivery.act
    BY <1>0, <2>1 DEF Delivery
  <2>. QED BY <1>0, <1>1, <1>3, <2>1, <2>2, QuietRun DEF RunTo, Sending
<1>4. CASE /\ delivery' = [delivery EXCEPT !.step = "next", !.rest = Recipients(delivery.act)]
           /\ UNCHANGED tally
  <2>1. PICK r : r = Recipients(delivery.act)
    OBVIOUS
  <2>2. /\ r \in Seq(People) /\ Once(r)
        /\ \A p \in To(r) : MayHear(p, delivery.act)
        /\ \A p \in People : MustHear(p, delivery.act) => p \in To(r)
    BY <1>0, <2>1, RecipientsFact DEF NotifyInv
  <2>3. PICK d : d = [delivery EXCEPT !.step = "next", !.rest = r]
    OBVIOUS
  <2>4. d \in Delivery /\ d.step = "next" /\ d.act = delivery.act /\ d.rest = r
    BY <1>0, <2>2, <2>3 DEF Delivery
  <2>5. To(r) \subseteq People
    BY <2>2 DEF To
  <2>6. Underway(d)
    BY <1>0, <2>2, <2>4, <2>5 DEF Underway, Tries, Fresh
  <2>. QED BY <1>0, <1>1, <1>4, <2>1, <2>3, <2>4, <2>6, QuietRun DEF Sending
<1>. QED BY <1>2, <1>3, <1>4 DEF LookUp

\* Turning to the next recipient, or to the next activity, keeps the invariant.
LEMMA NextRecipientFact == ASSUME NotifyInv, NextRecipient PROVE NotifyInv'
<1>0. /\ delivery \in Delivery /\ delivery # None /\ delivery.step = "next"
      /\ Stored(delivery.act) /\ Underway(delivery)
  BY RunFact DEF NextRecipient, Sending
<1>1. UNCHANGED <<store, acts, queue, users, accounts>>
  BY DEF NextRecipient
<1>2. CASE delivery.rest = <<>>
  BY <1>1, <1>2, WaitsFact DEF NextRecipient
<1>3. CASE delivery.rest # <<>>
  <2>1. PICK d : d = [delivery EXCEPT !.step = "user", !.try = 1]
    OBVIOUS
  <2>2. d \in Delivery /\ d.step = "user" /\ d.act = delivery.act /\ d.rest = delivery.rest /\ d.try = 1
    <3>1. 1 \in 1..Attempts
      BY NotifyNoneFact
    <3>. QED BY <1>0, <2>1, <3>1 DEF Delivery
  <2>3. Underway(d)
    BY <1>0, <1>3, <2>2 DEF Underway, Tries
  <2>. QED BY <1>0, <1>1, <1>3, <2>1, <2>2, <2>3, QuietRun DEF NextRecipient, Sending
<1>. QED BY <1>2, <1>3

(* Whom delivery is at, and the queue behind.                               *)
LEMMA HeadFact ==
    ASSUME NotifyInv, RunAt("user") \/ RunAt("post")
    PROVE  LET p == Head(delivery.rest)
               r == Tail(delivery.rest)
           IN  /\ p \in People /\ p = delivery.rest[1] /\ p \in To(delivery.rest)
               /\ r \in Seq(People) /\ Once(r) /\ To(r) = To(delivery.rest) \ {p}
               /\ told[p] = unsure[p] /\ told[p] <= delivery.try - 1 /\ told[p] \in Nat
               /\ over[p] = None /\ MayHear(p, delivery.act)
               /\ delivery.try \in 1..Attempts /\ Attempts \in Nat
<1>0. /\ delivery \in Delivery /\ delivery.step \in {"user", "post"} /\ Underway(delivery)
      /\ delivery.try \in 1..Attempts /\ Attempts \in Nat
  BY RunFact, NotifyNoneFact DEF RunAt, Sending
<1>1. PICK q : q = delivery.rest
  OBVIOUS
<1>2. q \in Seq(People) /\ q # <<>> /\ Len(q) \in Nat \ {0} /\ DOMAIN q = 1..Len(q)
  BY <1>0, <1>1 DEF Delivery, Underway
<1>3. PICK p \in People : p = Head(q) /\ p = q[1]
  BY <1>2
<1>4. PICK r : r = Tail(q)
  OBVIOUS
<1>5. r \in Seq(People) /\ Len(r) = Len(q) - 1 /\ DOMAIN r = 1..Len(r) /\ \A i \in 1..Len(r) : r[i] = q[i+1]
  BY <1>2, <1>4
<1>6. \A i, j \in 1..Len(q) : i # j => q[i] # q[j]
  BY <1>0, <1>1, <1>2 DEF Underway, Once
<1>7. Once(r)
  <2>. SUFFICES ASSUME NEW i \in 1..Len(r), NEW j \in 1..Len(r), i # j PROVE r[i] # r[j]
    BY <1>5 DEF Once
  <2>1. i + 1 \in 1..Len(q) /\ j + 1 \in 1..Len(q) /\ i + 1 # j + 1
    BY <1>2, <1>5
  <2>. QED BY <1>5, <1>6, <2>1
<1>8. To(r) = To(q) \ {p}
  <2>1. ASSUME NEW i \in 1..Len(r) PROVE r[i] \in To(q) /\ r[i] # p
    <3>1. i + 1 \in 1..Len(q) /\ i + 1 # 1 /\ 1 \in 1..Len(q)
      BY <1>2, <1>5
    <3>. QED BY <1>2, <1>3, <1>5, <1>6, <3>1 DEF To
  <2>2. ASSUME NEW i \in 1..Len(q), q[i] # p PROVE q[i] \in To(r)
    <3>1. i - 1 \in 1..Len(r) /\ (i - 1) + 1 = i
      BY <1>2, <1>3, <1>5, <2>2
    <3>2. r[i-1] = q[i]
      BY <1>5, <3>1
    <3>. QED BY <1>5, <3>1, <3>2 DEF To
  <2>. QED BY <1>2, <1>5, <2>1, <2>2 DEF To
<1>9. p \in To(q)
  BY <1>2, <1>3 DEF To
<1>10. /\ told[p] = unsure[p] /\ told[p] <= delivery.try - 1 /\ over[p] = None
       /\ MayHear(p, delivery.act)
  BY <1>0, <1>1, <1>3, <1>9 DEF Underway, Tries
<1>11. told[p] \in Nat
  BY <1>0 DEF NotifyInv, NotifyTypeOK
<1>. QED BY <1>0, <1>1, <1>3, <1>4, <1>5, <1>7, <1>8, <1>9, <1>10, <1>11

\* An attempt at p leaves k messages posted to it, and l answers lost.
Tallied(p, k, l) == told' = [told EXCEPT ![p] = k] /\ unsure' = [unsure EXCEPT ![p] = l]

\* The count that an attempt leaves.
LEMMA TalliedFact ==
    ASSUME NotifyInv, NEW p \in People, NEW k \in 0..Attempts, NEW l \in 0..Attempts, k <= l + 1,
           Tallied(p, k, l)
    PROVE  /\ told' \in [People -> 0..Attempts] /\ unsure' \in [People -> 0..Attempts] /\ ToldOnce'
           /\ told'[p] = k /\ unsure'[p] = l
           /\ \A x \in People : x # p => told'[x] = told[x] /\ unsure'[x] = unsure[x]
BY NotifyNoneFact DEF Tallied, NotifyInv, NotifyTypeOK, ToldOnce

\* Delivery to one recipient ends: it is dealt with and nobody else is touched.
LEMMA EndsFact ==
    ASSUME NotifyInv, RunAt("user") \/ RunAt("post"), NEW outcome \in Outcomes, DeliveryEnds(outcome),
           NEW k \in 0..Attempts, NEW l \in 0..Attempts, k <= l + 1,
           Tallied(Head(delivery.rest), k, l),
           users' \in [People -> User \cup {None}], MissingSound',
           UNCHANGED <<store, acts, queue, accounts>>
    PROVE  NotifyInv'
<1>1. PICK p : p = Head(delivery.rest)
  OBVIOUS
<1>2. PICK r : r = Tail(delivery.rest)
  OBVIOUS
<1>3. /\ p \in People /\ p \in To(delivery.rest) /\ r \in Seq(People) /\ Once(r)
      /\ To(r) = To(delivery.rest) \ {p} /\ MayHear(p, delivery.act)
  BY <1>1, <1>2, HeadFact
<1>4. /\ delivery \in Delivery /\ delivery # None /\ Stored(delivery.act) /\ Underway(delivery)
      /\ delivery.step # "next"
  BY RunFact DEF RunAt, Sending
<1>5. PICK d : d = [delivery EXCEPT !.step = "next", !.rest = r]
  OBVIOUS
<1>6. d \in Delivery /\ d.step = "next" /\ d.act = delivery.act /\ d.rest = r /\ d # None
  BY <1>3, <1>4, <1>5, NotifyNoneFact DEF Delivery
<1>7. delivery' = d
  <2>1. [delivery EXCEPT !.step = "next", !.rest = Tail(@)] = d
    BY <1>2, <1>4, <1>5 DEF Delivery
  <2>. QED BY <2>1 DEF DeliveryEnds
<1>8. over' = [over EXCEPT ![p] = outcome] /\ outcome # None
  BY <1>1, NotifyNoneFact DEF DeliveryEnds
<1>9. over' \in [People -> Outcomes \cup {None}]
  BY <1>3, <1>8 DEF NotifyInv, NotifyTypeOK
<1>10. /\ told' \in [People -> 0..Attempts] /\ unsure' \in [People -> 0..Attempts] /\ ToldOnce'
       /\ told'[p] = k /\ unsure'[p] = l
       /\ \A x \in People : x # p => told'[x] = told[x] /\ unsure'[x] = unsure[x]
  BY <1>1, <1>3, TalliedFact
<1>11. \A x : /\ MayHear(x, d.act)' <=> MayHear(x, delivery.act)
              /\ MustHear(x, d.act)' <=> MustHear(x, delivery.act)
  BY <1>6 DEF MayHear, MustHear, store, Ids
<1>12. Underway(d)'
  <2>1. ASSUME NEW x \in To(r)
        PROVE  /\ MayHear(x, d.act)' /\ over'[x] = None /\ told'[x] = unsure'[x] /\ told'[x] <= 0
    <3>0. To(r) \subseteq People
      BY <1>3 DEF To
    <3>1. x \in People /\ x # p /\ x \in To(delivery.rest)
      BY <1>3, <3>0
    <3>2. over[x] = None /\ told[x] = unsure[x] /\ MayHear(x, delivery.act) /\ told[x] <= Tries(delivery, x)
      BY <1>4, <3>1 DEF Underway
    <3>3. Tries(delivery, x) = 0
      BY <1>1, <3>1, HeadFact DEF Tries
    <3>4. over'[x] = over[x]
      BY <1>8, <3>1 DEF NotifyInv, NotifyTypeOK
    <3>. QED BY <1>10, <1>11, <3>1, <3>2, <3>3, <3>4
  <2>2. ASSUME NEW x \in People, told'[x] > 0 PROVE MayHear(x, d.act)'
    BY <1>3, <1>4, <1>10, <1>11, <2>2 DEF Underway
  <2>3. ASSUME NEW x \in People, MustHear(x, d.act)' PROVE x \in To(r) \/ over'[x] # None
    <3>1. x \in To(delivery.rest) \/ over[x] # None
      BY <1>4, <1>11, <2>3 DEF Underway
    <3>2. x = p => over'[x] = outcome
      BY <1>3, <1>8 DEF NotifyInv, NotifyTypeOK
    <3>3. x # p => over'[x] = over[x]
      BY <1>8 DEF NotifyInv, NotifyTypeOK
    <3>. QED BY <1>3, <1>8, <3>1, <3>2, <3>3
  <2>. QED BY <1>3, <1>6, <2>1, <2>2, <2>3 DEF Underway, Tries
<1>. QED BY <1>4, <1>6, <1>7, <1>9, <1>10, <1>12, RunStep DEF Sending

\* A failed attempt that is tried again leaves only a lost answer behind.
LEMMA PauseFact ==
    ASSUME NotifyInv, RunAt("user") \/ RunAt("post"), delivery.try # Attempts, Pause,
           NEW k \in 0..Attempts, k <= delivery.try, Tallied(Head(delivery.rest), k, k),
           UNCHANGED <<store, acts, queue, users, accounts>>
    PROVE  NotifyInv'
<1>1. PICK p : p = Head(delivery.rest)
  OBVIOUS
<1>2. /\ p \in People /\ p = delivery.rest[1] /\ MayHear(p, delivery.act) /\ over[p] = None
      /\ delivery.try \in 1..Attempts /\ Attempts \in Nat
  BY <1>1, HeadFact
<1>3. /\ delivery \in Delivery /\ delivery # None /\ Stored(delivery.act) /\ Underway(delivery)
      /\ delivery.step # "next"
  BY RunFact DEF RunAt, Sending
<1>4. PICK d : d = [delivery EXCEPT !.step = "sleep"]
  OBVIOUS
<1>5. /\ d \in Delivery /\ d.step = "sleep" /\ d.act = delivery.act /\ d.rest = delivery.rest
      /\ d.try = delivery.try /\ d # None /\ delivery' = d /\ UNCHANGED over
  BY <1>3, <1>4, NotifyNoneFact DEF Delivery, Pause
<1>6. k <= k + 1 /\ d.try < Attempts
  BY <1>2, <1>5
<1>7. /\ told' \in [People -> 0..Attempts] /\ unsure' \in [People -> 0..Attempts] /\ ToldOnce'
      /\ told'[p] = k /\ unsure'[p] = k
      /\ \A x \in People : x # p => told'[x] = told[x] /\ unsure'[x] = unsure[x]
  BY <1>1, <1>2, <1>6, TalliedFact
<1>8. \A x : /\ MayHear(x, d.act)' <=> MayHear(x, delivery.act)
             /\ MustHear(x, d.act)' <=> MustHear(x, delivery.act)
  BY <1>5 DEF MayHear, MustHear, store, Ids
<1>9. Underway(d)'
  <2>1. ASSUME NEW x \in To(d.rest)
        PROVE  /\ MayHear(x, d.act)' /\ over'[x] = None /\ told'[x] = unsure'[x]
               /\ told'[x] <= Tries(d, x)
    <3>1. x \in People
      BY <1>5 DEF To, Delivery
    <3>2. over[x] = None /\ told[x] = unsure[x] /\ MayHear(x, delivery.act) /\ told[x] <= Tries(delivery, x)
      BY <1>3, <1>5, <2>1 DEF Underway
    <3>3. x # p => Tries(delivery, x) = 0 /\ Tries(d, x) = 0
      BY <1>2, <1>5 DEF Tries
    <3>4. x = p => Tries(d, x) = delivery.try
      BY <1>2, <1>5 DEF Tries
    <3>. QED BY <1>5, <1>7, <1>8, <3>1, <3>2, <3>3, <3>4
  <2>2. ASSUME NEW x \in People, told'[x] > 0 PROVE MayHear(x, d.act)'
    BY <1>2, <1>3, <1>7, <1>8, <2>2 DEF Underway
  <2>3. ASSUME NEW x \in People, MustHear(x, d.act)' PROVE x \in To(d.rest) \/ over'[x] # None
    BY <1>3, <1>5, <1>8, <2>3 DEF Underway
  <2>. QED BY <1>3, <1>5, <1>6, <2>1, <2>2, <2>3 DEF Underway, Tries
<1>10. /\ over' \in [People -> Outcomes \cup {None}] /\ users' \in [People -> User \cup {None}]
       /\ MissingSound'
  BY <1>5 DEF NotifyInv, NotifyTypeOK, MissingSound, accounts
<1>. QED BY <1>3, <1>5, <1>7, <1>9, <1>10, RunStep DEF Sending

(* An attempt fails, with what it posted though.                            *)
LEMMA FailsFact ==
    ASSUME NotifyInv, RunAt("user") \/ RunAt("post"), Fails,
           NEW k \in 0..Attempts, k <= delivery.try, Tallied(Head(delivery.rest), k, k),
           UNCHANGED <<store, acts, queue, users, accounts>>
    PROVE  NotifyInv'
<1>1. users' \in [People -> User \cup {None}] /\ MissingSound'
  BY DEF NotifyInv, NotifyTypeOK, MissingSound, accounts
<1>2. CASE delivery.try = Attempts
  <2>1. k <= k + 1 /\ "failed" \in Outcomes /\ DeliveryEnds("failed")
    BY <1>2 DEF Outcomes, Fails
  <2>. QED BY <1>1, <2>1, EndsFact
<1>3. CASE delivery.try # Attempts
  BY <1>3, PauseFact DEF Fails
<1>. QED BY <1>2, <1>3

\* Nothing was posted and no answer was lost.
LEMMA SameTally ==
    ASSUME NotifyInv, RunAt("user") \/ RunAt("post"), UNCHANGED <<told, unsure>>
    PROVE  LET p == Head(delivery.rest)
           IN  /\ told[p] \in 0..Attempts /\ told[p] <= delivery.try /\ told[p] <= told[p] + 1
               /\ Tallied(p, told[p], told[p])
<1>1. PICK p : p = Head(delivery.rest)
  OBVIOUS
<1>2. /\ p \in People /\ told[p] = unsure[p] /\ told[p] <= delivery.try - 1 /\ told[p] \in Nat
      /\ delivery.try \in 1..Attempts /\ Attempts \in Nat
  BY <1>1, HeadFact
<1>3. told \in [People -> 0..Attempts] /\ unsure \in [People -> 0..Attempts]
  BY DEF NotifyInv, NotifyTypeOK
<1>. QED BY <1>1, <1>2, <1>3 DEF Tallied

\* Looking up the recipient's user keeps the invariant.
LEMMA UserIDFact == ASSUME NotifyInv, UserID PROVE NotifyInv'
<1>0. delivery \in Delivery /\ delivery # None /\ delivery.step = "user" /\ Stored(delivery.act) /\ Underway(delivery)
  BY RunFact DEF UserID, Sending
<1>1. PICK p : p = Head(delivery.rest)
  OBVIOUS
<1>2. p \in People /\ RunAt("user")
  BY <1>1, HeadFact DEF UserID
<1>3. UNCHANGED <<store, acts, queue, accounts, told, unsure>>
  BY DEF UserID
<1>4. PICK k : k = told[p]
  OBVIOUS
<1>5. k \in 0..Attempts /\ k <= delivery.try /\ k <= k + 1 /\ Tallied(Head(delivery.rest), k, k)
  BY <1>1, <1>2, <1>3, <1>4, SameTally
<1>6. CASE Fails /\ UNCHANGED users
  BY <1>2, <1>3, <1>5, <1>6, FailsFact
<1>7. now \in Nat /\ gone \in [People -> 0..MaxTime \cup {None}] /\ MaxTime \in Nat
      /\ users \in [People -> User \cup {None}]
  BY NotifyNoneFact DEF NotifyInv, NotifyTypeOK
<1>8. ASSUME NEW user \in BOOLEAN, users' \in [People -> User \cup {None}], MissingSound',
             IF user THEN delivery' = [delivery EXCEPT !.step = "post"] /\ UNCHANGED over
                     ELSE DeliveryEnds("undeliverable")
      PROVE  NotifyInv'
  <2>1. CASE user
    <3>1. PICK d : d = [delivery EXCEPT !.step = "post"]
      OBVIOUS
    <3>2. /\ d \in Delivery /\ d.step = "post" /\ d.act = delivery.act /\ d.rest = delivery.rest
          /\ d.try = delivery.try /\ d # None
      BY <1>0, <3>1, NotifyNoneFact DEF Delivery
    <3>3. delivery' = d /\ UNCHANGED over
      BY <1>8, <2>1, <3>1
    <3>4. \A x : Tries(d, x) = Tries(delivery, x)
      BY <1>0, <3>2 DEF Tries
    <3>5. Underway(d)'
      <4>1. \A x : /\ MayHear(x, d.act)' <=> MayHear(x, delivery.act)
                   /\ MustHear(x, d.act)' <=> MustHear(x, delivery.act)
        BY <1>3, <3>2 DEF MayHear, MustHear, store, Ids
      <4>. QED BY <1>0, <1>3, <3>2, <3>3, <3>4, <4>1 DEF Underway, Tries
    <3>6. /\ told' \in [People -> 0..Attempts] /\ unsure' \in [People -> 0..Attempts]
          /\ over' \in [People -> Outcomes \cup {None}] /\ ToldOnce'
      BY <1>3, <3>3 DEF NotifyInv, NotifyTypeOK, ToldOnce
    <3>. QED BY <1>0, <1>3, <1>8, <3>2, <3>3, <3>5, <3>6, RunStep DEF Sending
  <2>2. CASE ~user
    <3>1. DeliveryEnds("undeliverable") /\ "undeliverable" \in Outcomes
      BY <1>8, <2>2 DEF Outcomes
    <3>. QED BY <1>2, <1>3, <1>5, <1>8, <3>1, EndsFact
  <2>. QED BY <2>1, <2>2
<1>9. CASE /\ Remembered(p)
           /\ IF users[p].id THEN delivery' = [delivery EXCEPT !.step = "post"] /\ UNCHANGED over
                             ELSE DeliveryEnds("undeliverable")
           /\ UNCHANGED users
  <2>1. users[p].id \in BOOLEAN
    BY <1>2, <1>7, <1>9 DEF Remembered, User
  <2>2. users' \in [People -> User \cup {None}] /\ MissingSound'
    BY <1>3, <1>7, <1>9 DEF NotifyInv, MissingSound, accounts
  <2>. QED BY <1>8, <1>9, <2>1, <2>2
<1>10. CASE /\ IF p \in account THEN delivery' = [delivery EXCEPT !.step = "post"] /\ UNCHANGED over
                                ELSE DeliveryEnds("undeliverable")
            /\ Remember(p, p \in account)
  <2>1. PICK found \in BOOLEAN : found = (p \in account)
    <3>1. (p \in account) \in BOOLEAN
      OBVIOUS
    <3>. QED BY <3>1, Zenon
  <2>2. PICK e \in Nat : e = now + IF found THEN UserTTL ELSE MissingTTL
    BY <1>7, NotifyNoneFact
  <2>3. PICK u : u = [id |-> found, expires |-> e]
    OBVIOUS
  <2>4. u \in User /\ u.id = found /\ u.expires = e /\ users' = [users EXCEPT ![p] = u]
    BY <1>10, <2>1, <2>2, <2>3 DEF User, Remember
  <2>5. users' \in [People -> User \cup {None}]
    BY <1>7, <2>4
  <2>6. MissingSound'
    <3>1. UNCHANGED <<now, account, gone>>
      BY <1>3 DEF accounts
    <3>2. \A x \in People : x # p => users'[x] = users[x]
      BY <1>7, <2>4
    <3>3. users'[p] = u
      BY <1>2, <1>7, <2>4
    <3>4. ~found => gone[p] = now /\ now # None /\ e = now + MissingTTL
      BY <1>2, <1>7, <2>1, <2>2, NotifyNoneFact DEF NotifyInv, MissingSound
    <3>. QED BY <1>2, <2>4, <3>1, <3>2, <3>3, <3>4 DEF NotifyInv, MissingSound
  <2>. QED BY <1>8, <1>10, <2>1, <2>5, <2>6
<1>. QED BY <1>1, <1>6, <1>9, <1>10 DEF UserID

\* Posting the message keeps the invariant, whether it arrives, its answer is lost or it fails.
LEMMA PostFact == ASSUME NotifyInv, Post PROVE NotifyInv'
<1>1. PICK p : p = Head(delivery.rest)
  OBVIOUS
<1>2. /\ p \in People /\ RunAt("post") /\ told[p] = unsure[p] /\ told[p] <= delivery.try - 1
      /\ told[p] \in Nat /\ delivery.try \in 1..Attempts /\ Attempts \in Nat
  BY <1>1, HeadFact DEF Post
<1>3. UNCHANGED <<store, acts, queue, users, accounts>>
  BY DEF Post
<1>4. users' \in [People -> User \cup {None}] /\ MissingSound'
  BY <1>3 DEF NotifyInv, NotifyTypeOK, MissingSound, accounts
<1>5. PICK k : k = told[p]
  OBVIOUS
<1>6. UNCHANGED <<told, unsure>> => /\ k \in 0..Attempts /\ k <= delivery.try /\ k <= k + 1
                                    /\ Tallied(Head(delivery.rest), k, k)
  BY <1>1, <1>2, <1>5, SameTally
<1>7. /\ k \in 0..Attempts /\ k + 1 \in 0..Attempts /\ k + 1 <= delivery.try /\ k + 1 <= k + 1
      /\ {"sent", "undeliverable"} \subseteq Outcomes
  BY <1>2, <1>5 DEF Outcomes
<1>8. CASE told' = [told EXCEPT ![p] = @ + 1] /\ DeliveryEnds("sent") /\ UNCHANGED unsure
  <2>1. Tallied(Head(delivery.rest), k + 1, k)
    BY <1>1, <1>2, <1>5, <1>8 DEF Tallied, NotifyInv, NotifyTypeOK
  <2>. QED BY <1>2, <1>3, <1>4, <1>7, <1>8, <2>1, EndsFact
<1>9. CASE DeliveryEnds("undeliverable") /\ UNCHANGED <<told, unsure>>
  BY <1>2, <1>3, <1>4, <1>6, <1>7, <1>9, EndsFact
<1>10. CASE Fails /\ UNCHANGED <<told, unsure>>
  BY <1>2, <1>3, <1>6, <1>10, FailsFact
<1>11. CASE /\ told' = [told EXCEPT ![p] = @ + 1] /\ unsure' = [unsure EXCEPT ![p] = @ + 1]
            /\ Fails
  <2>1. Tallied(Head(delivery.rest), k + 1, k + 1)
    BY <1>1, <1>2, <1>5, <1>11 DEF Tallied, NotifyInv, NotifyTypeOK
  <2>. QED BY <1>2, <1>3, <1>7, <1>11, <2>1, FailsFact
<1>. QED BY <1>1, <1>8, <1>9, <1>10, <1>11 DEF Post

\* The next attempt keeps the invariant.
LEMMA WakeFact == ASSUME NotifyInv, Wake PROVE NotifyInv'
<1>0. delivery \in Delivery /\ delivery # None /\ delivery.step = "sleep" /\ Stored(delivery.act) /\ Underway(delivery)
  BY RunFact DEF Wake, Sending
<1>1. delivery.try + 1 \in 1..Attempts /\ delivery.try \in Nat
  BY <1>0, NotifyNoneFact DEF Underway, Delivery
<1>2. PICK d : d = [delivery EXCEPT !.step = "user", !.try = delivery.try + 1]
  OBVIOUS
<1>3. /\ d \in Delivery /\ d.step = "user" /\ d.act = delivery.act /\ d.rest = delivery.rest
      /\ d.try = delivery.try + 1 /\ delivery' = d
  BY <1>0, <1>1, <1>2 DEF Delivery, Wake
<1>4. \A x : Tries(d, x) = Tries(delivery, x)
  BY <1>0, <1>1, <1>3 DEF Tries
<1>5. Underway(d)
  BY <1>0, <1>3, <1>4 DEF Underway
<1>. QED BY <1>0, <1>3, <1>5, QuietRun DEF Wake, Sending

-----------------------------------------------------------------------------
(* Around it.                                                               *)

\* Nothing but Slack and the clock.
LEMMA WorldStep ==
    ASSUME NotifyInv, now' \in 0..MaxTime, account' \in SUBSET People, flips' \in 0..MaxFlips,
           gone' \in [People -> 0..MaxTime \cup {None}], MissingSound',
           UNCHANGED <<store, acts, queue, delivery, users, tally>>
    PROVE  NotifyInv'
<1>1. UNCHANGED <<comments, resolved, pending, acts, queue, delivery, users, told, unsure, over>>
  BY DEF store, tally
<1>2. NotifyTypeOK'
  BY <1>1 DEF NotifyInv, NotifyTypeOK
<1>3. ActsSound'
  BY <1>1, StoredStands DEF NotifyInv, ActsSound
<1>4. DeliverySound'
  BY <1>1, StoredStands DEF NotifyInv, DeliverySound, Fresh, Underway, MayHear, MustHear, Ids
<1>5. ToldOnce'
  BY <1>1 DEF NotifyInv, ToldOnce
<1>. QED BY <1>2, <1>3, <1>4, <1>5 DEF NotifyInv

\* Time keeps the invariant: what is remembered as missing has been missing since.
LEMMA TimeFact == ASSUME NotifyInv, TimePasses PROVE NotifyInv'
<1>1. /\ now \in Nat /\ now' = now + 1 /\ now' \in 0..MaxTime /\ gone \in [People -> 0..MaxTime \cup {None}]
      /\ MaxTime \in Nat /\ MissingTTL \in Nat /\ users \in [People -> User \cup {None}]
  BY NotifyNoneFact DEF TimePasses, NotifyInv, NotifyTypeOK
<1>2. UNCHANGED <<account, flips, users>>
  BY DEF TimePasses
<1>3. ASSUME NEW p \in People
      PROVE  gone'[p] = IF p \notin account THEN now + 1
                        ELSE IF gone[p] # None /\ now + 1 < gone[p] + MissingTTL THEN gone[p]
                        ELSE None
  BY DEF TimePasses
<1>4. gone' \in [People -> 0..MaxTime \cup {None}]
  BY <1>1 DEF TimePasses
<1>5. MissingSound'
  <2>. SUFFICES ASSUME NEW p \in People
                PROVE  /\ p \notin account' => gone'[p] = now'
                       /\ gone'[p] # None => gone'[p] <= now'
                       /\ users'[p] # None /\ ~users'[p].id /\ now' < users'[p].expires =>
                            gone'[p] # None /\ users'[p].expires <= gone'[p] + MissingTTL
    BY DEF MissingSound
  <2>1. /\ p \notin account => gone[p] = now
        /\ gone[p] # None => gone[p] <= now /\ gone[p] \in Nat
        /\ users[p] # None /\ ~users[p].id /\ now < users[p].expires =>
             gone[p] # None /\ users[p].expires <= gone[p] + MissingTTL
    BY <1>1 DEF NotifyInv, MissingSound
  <2>2. users[p] # None => users[p].expires \in Nat
    BY <1>1 DEF User
  <2>3. None # now + 1
    BY <1>1, NotifyNoneFact
  <2>4. CASE p \notin account
    BY <1>1, <1>2, <1>3, <2>1, <2>2, <2>3, <2>4
  <2>5. CASE p \in account /\ gone[p] # None /\ now + 1 < gone[p] + MissingTTL
    BY <1>1, <1>2, <1>3, <2>1, <2>2, <2>5
  <2>6. CASE p \in account /\ ~(gone[p] # None /\ now + 1 < gone[p] + MissingTTL)
    BY <1>1, <1>2, <1>3, <2>1, <2>2, <2>6
  <2>. QED BY <2>4, <2>5, <2>6
<1>6. account' \in SUBSET People /\ flips' \in 0..MaxFlips
  BY <1>2 DEF NotifyInv, NotifyTypeOK
<1>. QED BY <1>1, <1>4, <1>5, <1>6, WorldStep DEF TimePasses

\* An account that appears or goes keeps the invariant.
LEMMA FlipFact == ASSUME NotifyInv, NEW p \in Flaky, Flip(p) PROVE NotifyInv'
<1>0. p \in People
  BY NotifyAssumption
<1>1. /\ now \in 0..MaxTime /\ gone \in [People -> 0..MaxTime \cup {None}] /\ MaxTime \in Nat
      /\ MissingTTL \in Nat /\ users \in [People -> User \cup {None}] /\ now # None
  BY NotifyNoneFact DEF NotifyInv, NotifyTypeOK
<1>2. now' = now /\ users' = users /\ gone' = [gone EXCEPT ![p] = now]
  BY DEF Flip
<1>3. account' \in SUBSET People /\ \A x \in People : x # p => (x \in account' <=> x \in account)
  BY <1>0 DEF Flip, NotifyInv, NotifyTypeOK
<1>4. gone' \in [People -> 0..MaxTime \cup {None}] /\ flips' \in 0..MaxFlips
  BY <1>0, <1>1, <1>2, NotifyNoneFact DEF Flip, NotifyInv, NotifyTypeOK
<1>5. MissingSound'
  <2>1. \A x \in People : gone'[x] = IF x = p THEN now ELSE gone[x]
    BY <1>1, <1>2
  <2>2. users[p] # None => users[p].expires \in Nat
    BY <1>0, <1>1 DEF User
  <2>3. gone[p] # None => gone[p] \in Nat /\ gone[p] <= now
    BY <1>0, <1>1 DEF NotifyInv, MissingSound
  <2>4. users[p] # None /\ ~users[p].id /\ now < users[p].expires => users[p].expires <= now + MissingTTL
    BY <1>0, <1>1, <2>2, <2>3 DEF NotifyInv, MissingSound
  <2>. QED BY <1>1, <1>2, <1>3, <2>1, <2>4 DEF NotifyInv, MissingSound
<1>. QED BY <1>1, <1>2, <1>3, <1>4, <1>5, WorldStep DEF Flip

\* A restart keeps the invariant: the queue and all that was remembered are gone.
LEMMA NotifyRestartFact == ASSUME NotifyInv, NotifyRestart PROVE NotifyInv'
<1>1. UNCHANGED <<comments, resolved, now, account, flips, gone>>
  BY DEF NotifyRestart, accounts
<1>2. /\ queue' = <<>> /\ delivery' = None /\ users' = [p \in People |-> None] /\ pending' = {}
      /\ told' = [p \in People |-> 0] /\ unsure' = [p \in People |-> 0] /\ over' = [p \in People |-> None]
      /\ acts' = acts + Cardinality(pending)
  BY DEF NotifyRestart, Waits
<1>3. acts \in Nat /\ IsFiniteSet(pending) /\ acts + Cardinality(pending) <= MaxActs /\ MaxActs \in Nat
  BY NotifyNoneFact DEF NotifyInv, NotifyTypeOK, ActsSound
<1>4. Cardinality(pending) \in Nat
  BY <1>3, FS_CardinalityType
<1>5. acts' \in 0..MaxActs
  BY <1>2, <1>3, <1>4
<1>6. NotifyTypeOK'
  <2>1. told' \in [People -> 0..Attempts] /\ unsure' \in [People -> 0..Attempts]
    BY <1>2, NotifyNoneFact
  <2>. QED BY <1>1, <1>2, <1>5, <2>1, NotifyNoneFact DEF NotifyInv, NotifyTypeOK
<1>7. ToldOnce' /\ DeliverySound'
  BY <1>2 DEF ToldOnce, DeliverySound, Fresh
<1>8. ActsSound'
  BY <1>2, <1>5, FS_EmptySet, NotifyNoneFact DEF ActsSound
<1>9. MissingSound'
  BY <1>1, <1>2 DEF NotifyInv, MissingSound
<1>. QED BY <1>6, <1>7, <1>8, <1>9 DEF NotifyInv

\* The invariant is inductive.
LEMMA NotifyNextInv == NotifyInv /\ [NotifyNext]_notifyVars => NotifyInv'
<1>. SUFFICES ASSUME NotifyInv, [NotifyNext]_notifyVars PROVE NotifyInv'
  OBVIOUS
<1>0. /\ comments \in Seq(Comment) /\ Len(comments) \in Nat /\ Ids = 1..Len(comments)
  BY IdsFact DEF NotifyInv, NotifyTypeOK
<1>1. ASSUME Listening, NEW p \in People, Create(p) PROVE NotifyInv'
  BY <1>0, <1>1, WritesFact DEF Create
<1>2. ASSUME Listening, NEW p \in People, NEW t \in Ids, Reply(p, t) PROVE NotifyInv'
  BY <1>0, <1>2, WritesFact DEF Reply
<1>3. ASSUME Listening, NEW p \in People, NEW t \in Ids, Resolve(p, t) \/ Reopen(p, t) PROVE NotifyInv'
  BY <1>3, SettleFact DEF Resolve, Reopen
<1>4. ASSUME Listening, NEW i \in Ids, Delete(i) PROVE NotifyInv'
  BY <1>4, DeleteFact
<1>5. ASSUME NEW a \in pending, Emit(a) PROVE NotifyInv'
  BY <1>5, EmitFact
<1>6. CASE Dequeue
  BY <1>6, DequeueFact
<1>7. CASE LookUp
  BY <1>7, LookUpFact
<1>8. CASE NextRecipient
  BY <1>8, NextRecipientFact
<1>9. CASE UserID
  BY <1>9, UserIDFact
<1>10. CASE Post
  BY <1>10, PostFact
<1>11. CASE Wake
  BY <1>11, WakeFact
<1>12. CASE TimePasses
  BY <1>12, TimeFact
<1>13. ASSUME NEW p \in Flaky, Flip(p) PROVE NotifyInv'
  BY <1>13, FlipFact
<1>14. CASE NotifyRestart
  BY <1>14, NotifyRestartFact
<1>15. CASE UNCHANGED notifyVars
  <2>1. UNCHANGED <<store, acts, queue, delivery, users, now, account, flips, gone, tally>>
    BY <1>15 DEF notifyVars, accounts
  <2>. QED BY <2>1, WorldStep DEF NotifyInv, NotifyTypeOK, MissingSound
<1>. QED BY <1>1, <1>2, <1>3, <1>4, <1>5, <1>6, <1>7, <1>8, <1>9, <1>10, <1>11, <1>12, <1>13, <1>14,
            <1>15 DEF NotifyNext, Comments, Run

\* The inductive invariant of the dispatcher and the comments it reports on.
THEOREM NotifyInvariance == NotifySpec => []NotifyInv
BY NotifyInitInv, NotifyNextInv, PTL DEF NotifySpec

\* Whoever the dispatcher tells of an activity is the owner or somebody who wrote in the
\* thread, never the one who acted, and hears of it once unless an answer was lost
\* (Recipients, deliver).
THEOREM PeopleAreToldRight == NotifySpec => []ToldRight
<1>1. NotifyInv => ToldRight
  <2>. SUFFICES ASSUME NotifyInv PROVE ToldRight
    OBVIOUS
  <2>1. ASSUME NEW p \in People, delivery # None, told[p] > 0 PROVE MayHear(p, delivery.act)
    BY <2>1 DEF NotifyInv, DeliverySound, Fresh, Underway
  <2>. QED BY <2>1 DEF NotifyInv, ToldRight, OnlyThoseConcerned, MayHear
<1>. QED BY <1>1, NotifyInvariance, PTL

\* When the dispatcher is through with an activity, everybody who must hear of it has been
\* told or given up, whatever failed for the others before them (Recipients, handle).
THEOREM NobodyIsForgotten == NotifySpec => []NobodyForgotten
<1>1. NotifyInv => NobodyForgotten
  <2>. SUFFICES ASSUME NotifyInv, RunAt("next"), delivery.rest = <<>> PROVE NobodyForgotten
    BY DEF NobodyForgotten
  <2>1. Underway(delivery) /\ Stored(delivery.act) /\ delivery.act \in Activity
    BY RunFact DEF Sending
  <2>2. \A p \in People : MustHear(p, delivery.act) => over[p] # None
    BY <2>1 DEF Underway, To
  <2>3. PICK a : a = delivery.act
    OBVIOUS
  <2>4. PICK concerned : concerned =
                IF a.kind = "thread_created" THEN {Owner}
                ELSE IF a.kind = "reply_created"
                  THEN {Owner} \cup {comments[i].author : i \in {j \in a.live : ~comments[j].deleted}}
                  ELSE {comments[a.comment].author}
    OBVIOUS
  <2>5. ASSUME NEW p \in concerned \ {a.actor} PROVE over[p] # None
    <3>1. a.kind \in Kinds
      BY <2>1, <2>3 DEF Activity
    <3>2. \A i \in Ids : comments[i].author \in People
      BY IdsFact DEF NotifyInv, Comment
    <3>3. p \in People
      BY <2>1, <2>3, <2>4, <2>5, <3>2, NotifyNoneFact DEF Stored
    <3>4. MustHear(p, a)
      BY <2>3, <2>4, <2>5, <3>1 DEF MustHear, Kinds
    <3>. QED BY <2>2, <2>3, <3>3, <3>4
  <2>. QED BY <2>3, <2>4, <2>5 DEF NobodyForgotten
<1>. QED BY <1>1, NotifyInvariance, PTL

\* Nobody is given up as missing who had a Slack account all through the lifetime of what
\* userID remembers of missing users.
THEOREM NobodyReachableIsGivenUp == NotifySpec => GivenUpWasGone
<1>1. ASSUME NotifyInv, [NotifyNext]_notifyVars, NEW p \in People, over[p] = None,
             over'[p] = "undeliverable"
      PROVE  p \notin account \/ gone[p] # None
  <2>0. over \in [People -> Outcomes \cup {None}] /\ None # "undeliverable"
    BY <1>1, NotifyNoneFact DEF NotifyInv, NotifyTypeOK, Outcomes
  <2>1. UserID \/ Post
    BY <1>1, <2>0 DEF NotifyNext, notifyVars, tally, Comments, Create, Reply, Writes, Stores, Resolve,
       Reopen, Delete, Emit, Run, Dequeue, LookUp, RunTo, Waits, NextRecipient, Wake, TimePasses, Flip,
       NotifyRestart
  <2>2. over' # over
    BY <1>1, <2>0
  <2>3. CASE UserID
    <3>1. \E o \in Outcomes : over' = [over EXCEPT ![Head(delivery.rest)] = o]
      BY <2>2, <2>3 DEF UserID, Fails, Pause, DeliveryEnds, Outcomes
    <3>2. p = Head(delivery.rest)
      BY <1>1, <2>0, <3>1
    <3>3. CASE Remembered(p) /\ ~users[p].id
      BY <1>1, <3>3 DEF NotifyInv, MissingSound, Remembered
    <3>4. CASE p \notin account
      BY <3>4
    <3>5. CASE Fails /\ delivery.try = Attempts
      <4>1. over'[p] = "failed"
        BY <1>1, <2>0, <3>2, <3>5 DEF Fails, DeliveryEnds
      <4>. QED BY <1>1, <4>1
    <3>. QED BY <2>2, <2>3, <3>2, <3>3, <3>4, <3>5 DEF UserID, Fails, Pause
  <2>4. CASE Post
    <3>1. \E o \in Outcomes : over' = [over EXCEPT ![Head(delivery.rest)] = o]
      BY <2>2, <2>4 DEF Post, Fails, Pause, DeliveryEnds, Outcomes
    <3>2. p = Head(delivery.rest)
      BY <1>1, <2>0, <3>1
    <3>3. CASE DeliveryEnds("sent")
      <4>1. over'[p] = "sent"
        BY <1>1, <2>0, <3>2, <3>3 DEF DeliveryEnds
      <4>. QED BY <1>1, <4>1
    <3>4. CASE p \notin account
      BY <3>4
    <3>5. CASE Fails /\ delivery.try = Attempts
      <4>1. over'[p] = "failed"
        BY <1>1, <2>0, <3>2, <3>5 DEF Fails, DeliveryEnds
      <4>. QED BY <1>1, <4>1
    <3>. QED BY <2>2, <2>4, <3>2, <3>3, <3>4, <3>5 DEF Post, Fails, Pause
  <2>. QED BY <2>1, <2>3, <2>4
<1>2. NotifyInv /\ [NotifyNext]_notifyVars =>
        [\A p \in People :
           over[p] = None /\ over'[p] = "undeliverable" =>
             \/ p \notin account
             \/ gone[p] # None]_notifyVars
  BY <1>1
<1>. QED BY <1>2, NotifyInvariance, PTL DEF NotifySpec, GivenUpWasGone

Previews == {"meta", "head", "card", "file", "unfurl"}

\* Who may see what a preview in the making shows.
MayShow(w) ==
    /\ w.step \in Previews =>
          \/ w.msg \in auto
          \/ w.choice = "title"
          \/ w.choice = "full" /\ w.msg \in chosen
    /\ w.step = "unfurl" /\ w.choice = "title" => w.hidden

\* How far it is put together.
PutTogether(w) ==
    /\ w.step \notin {"card", "file", "unfurl", "respond"} => w.shows = None
    /\ w.step \notin {"unfurl", "respond"} => ~w.file
    /\ w.step = "file" => w.choice # "title"
    /\ w.step = "file" \/ w.file => w.card # None

\* No version that was flagged when it was begun is on the way into it.
Unflagged(w) ==
    /\ \A v \in w.bad : /\ v <= artifact.version
                        /\ v = artifact.version => artifact.flagged
                        /\ w.step = "head" => v < artifact.version
    /\ w.shows # None => w.shows \notin w.bad

\* The check of the conversation: its clock, and the guest list it rests on.
CheckedAt(w) ==
    /\ w.step \in {"list", "members"} => w.at <= now
    /\ w.step = "members" => guestList # None /\ w.at < guestList.at + GuestTTL

InTheMaking(w) == MayShow(w) /\ PutTogether(w) /\ Unflagged(w) /\ CheckedAt(w)

\* Who is a guest here, and nothing remembered misses a guest it was made after.
GuestsSince == \A u \in Users : since[u] # None <=> u \in members /\ u \in guests

ListSound ==
    guestList # None =>
        /\ guestList.at <= now
        /\ \A u \in Users : since[u] # None /\ u \notin guestList.ids => guestList.at <= since[u]

ChannelSound ==
    channel # None =>
        /\ channel.at <= now
        /\ ~channel.has => \A u \in Users : since[u] # None => channel.at < since[u] + GuestTTL

RefusalsKept == \A x \in Images : x \notin files => failures[x] = failed[x]

ClicksHeard ==
    \A i \in DOMAIN events :
        events[i].type = "click" /\ events[i].user = Sharer /\ events[i].choice = "full" =>
            events[i].msg \in chosen

CacheSound == GuestsSince /\ ListSound /\ ChannelSound /\ RefusalsKept

UnfurlInv ==
    /\ UnfurlTypeOK
    /\ work # None => InTheMaking(work)
    /\ CacheSound
    /\ ClicksHeard
    /\ ContentByRight

\* None is none of the values.
LEMMA UnfurlNoneFact ==
    /\ None \notin Images /\ None \notin Work /\ None \notin GuestList /\ None \notin Channel
    /\ None \notin Nat /\ None # "hidden" /\ None # "content" /\ MaxTime \in Nat
    /\ Times \subseteq Nat /\ Versions \subseteq Nat /\ 0 \in Times /\ 1 \in Versions
BY UnfurlNoneAssumption, UnfurlAssumption, SlackAssumption DEF Times, Versions

\* The fields of the work in hand.
LEMMA WorkFact ==
    ASSUME UnfurlInv, NEW step, ServeAt(step)
    PROVE  work \in Work /\ work # None /\ work.step = step /\ InTheMaking(work)
BY DEF UnfurlInv, UnfurlTypeOK, ServeAt

(* A preview in the making is not touched by what others do elsewhere.      *)
LEMMA MakingKeeps ==
    ASSUME NEW w \in Work, InTheMaking(w), auto \subseteq auto', chosen \subseteq chosen',
           UNCHANGED <<artifact, guestList, now>>
    PROVE  InTheMaking(w)'
BY DEF InTheMaking, MayShow, PutTogether, Unflagged, CheckedAt

\* The caches stay sound when nothing they speak of changes.
LEMMA CacheKeeps ==
    ASSUME CacheSound, UNCHANGED <<now, members, guests, since, guestList, channel, files, failures, failed>>
    PROVE  CacheSound'
BY DEF CacheSound, GuestsSince, ListSound, ChannelSound, RefusalsKept

\* What was shown stays shown by right, and quoted soundly.
LEMMA ContentKeeps ==
    ASSUME ContentByRight, auto \subseteq auto', chosen \subseteq chosen', UNCHANGED posted
    PROVE  ContentByRight'
BY DEF ContentByRight

\* The clicks on their way stay clicks on prompts that were asked.
LEMMA ClicksKeep ==
    ASSUME ClicksHeard, chosen \subseteq chosen', UNCHANGED events
    PROVE  ClicksHeard'
BY DEF ClicksHeard

(* A step of Serve that changes only what it is at.                         *)
LEMMA ServeStep ==
    ASSUME UnfurlInv, NEW n \in Work \cup {None}, n # None => InTheMaking(n), work' = n,
           UNCHANGED <<world, slack, cache, auto, failed>>
    PROVE  UnfurlInv'
<1>1. UNCHANGED <<now, members, guests, artifact, since, events, again, prompts, posted, chosen,
                  guestList, channel, files, failures, auto, failed>>
  BY DEF world, slack, cache
<1>2. UnfurlTypeOK'
  BY <1>1 DEF UnfurlInv, UnfurlTypeOK
<1>3. n # None => InTheMaking(n)'
  BY <1>1, MakingKeeps
<1>4. work' # None => InTheMaking(work)'
  BY <1>3
<1>5. CacheSound' /\ ClicksHeard' /\ ContentByRight'
  BY <1>1, CacheKeeps, ClicksKeep, ContentKeeps DEF UnfurlInv
<1>. QED BY <1>2, <1>4, <1>5 DEF UnfurlInv

\* The end of a piece of work: at once, or by removing the prompt that was answered.
LEMMA ServeEndsFact ==
    ASSUME UnfurlInv, NEW step, ServeAt(step), ServeEnds
    PROVE  \E n \in Work \cup {None} : work' = n /\ (n # None => InTheMaking(n))
<1>0. work \in Work /\ InTheMaking(work)
  BY WorkFact
<1>1. CASE ~work.answers
  BY <1>1 DEF ServeEnds
<1>2. CASE work.answers
  <2>1. PICK n : n = [work EXCEPT !.step = "respond"]
    OBVIOUS
  <2>2. n \in Work
    BY <1>0, <2>1 DEF Work
  <2>3. /\ n.step = "respond" /\ n.msg = work.msg /\ n.choice = work.choice
        /\ n.shows = work.shows /\ n.file = work.file /\ n.card = work.card /\ n.bad = work.bad
    BY <1>0, <2>1 DEF Work
  <2>4. InTheMaking(n)
    BY <1>0, <2>3 DEF InTheMaking, MayShow, PutTogether, Unflagged, CheckedAt, Previews
  <2>. QED BY <1>2, <2>1, <2>2, <2>4 DEF ServeEnds
<1>. QED BY <1>1, <1>2

(* A step of Serve that changes what it is at and the prompts.              *)
LEMMA PromptStep ==
    ASSUME UnfurlInv, NEW n \in Work \cup {None}, n # None => InTheMaking(n), work' = n,
           prompts' \in SUBSET Messages,
           UNCHANGED <<world, events, again, posted, chosen, cache, auto, failed>>
    PROVE  UnfurlInv'
<1>1. UNCHANGED <<now, members, guests, artifact, since, events, again, posted, chosen,
                  guestList, channel, files, failures, auto, failed>>
  BY DEF world, cache
<1>2. UnfurlTypeOK'
  BY <1>1 DEF UnfurlInv, UnfurlTypeOK
<1>3. n # None => InTheMaking(n)'
  BY <1>1, MakingKeeps
<1>4. work' # None => InTheMaking(work)'
  BY <1>3
<1>5. CacheSound' /\ ClicksHeard' /\ ContentByRight'
  BY <1>1, CacheKeeps, ClicksKeep, ContentKeeps DEF UnfurlInv
<1>. QED BY <1>2, <1>4, <1>5 DEF UnfurlInv

\* The initial states satisfy the invariant.
LEMMA UnfurlInitInv == UnfurlInit => UnfurlInv
<1>. SUFFICES ASSUME UnfurlInit PROVE UnfurlInv
  OBVIOUS
<1>1. UnfurlTypeOK
  BY UnfurlNoneFact, UnfurlAssumption DEF UnfurlInit, UnfurlTypeOK
<1>2. CacheSound /\ ClicksHeard /\ ContentByRight
  BY UnfurlNoneFact DEF UnfurlInit, CacheSound, GuestsSince, ListSound, ChannelSound, RefusalsKept,
                        ClicksHeard, ContentByRight
<1>. QED BY <1>1, <1>2 DEF UnfurlInv, UnfurlInit

\* Work that begins for a message that may be shown, or asked about, is sound.
LEMMA BeginFact ==
    ASSUME UnfurlInv, NEW m \in Messages, NEW c \in Choices,
           NEW s \in {"info", "meta", "respond"}, NEW a \in BOOLEAN,
           s = "meta" => m \in auto \/ c = "title" \/ (c = "full" /\ m \in chosen)
    PROVE  Begin(m, s, c, a) \in Work /\ InTheMaking(Begin(m, s, c, a))
<1>1. PICK w : w = Begin(m, s, c, a)
  OBVIOUS
<1>2. /\ w.step = s /\ w.msg = m /\ w.choice = c /\ w.at = now /\ w.shows = None /\ w.file = FALSE
      /\ w.bad = IF artifact.flagged THEN {artifact.version} ELSE {}
  BY <1>1 DEF Begin
<1>3. w \in Work
  BY <1>1, UnfurlNoneFact DEF UnfurlInv, UnfurlTypeOK, Begin, Work
<1>4. artifact.version \in Nat
  BY UnfurlNoneFact DEF UnfurlInv, UnfurlTypeOK
<1>5. MayShow(w) /\ PutTogether(w) /\ CheckedAt(w)
  BY <1>2 DEF MayShow, PutTogether, CheckedAt, Previews
<1>6. Unflagged(w)
  BY <1>2, <1>4 DEF Unflagged
<1>. QED BY <1>1, <1>3, <1>5, <1>6 DEF InTheMaking

(* The next event, and the queue behind it.                                 *)
LEMMA TakesFact ==
    ASSUME UnfurlInv, events # <<>>, Takes
    PROVE  /\ Head(events) \in Event /\ 1 \in DOMAIN events /\ Head(events) = events[1]
           /\ events' \in Seq(Event) /\ again' \in 0..MaxAgain
           /\ \A i \in DOMAIN events' : \E j \in DOMAIN events : events'[i] = events[j]
<1>1. events \in Seq(Event) /\ again \in 0..MaxAgain /\ MaxAgain \in Nat
  BY UnfurlAssumption DEF UnfurlInv, UnfurlTypeOK
<1>2. Len(events) \in Nat \ {0} /\ DOMAIN events = 1..Len(events)
  BY <1>1
<1>3. PICK t : t = Tail(events)
  OBVIOUS
<1>4. /\ t \in Seq(Event) /\ Len(t) = Len(events) - 1
      /\ \A i \in 1..Len(t) : t[i] = events[i+1]
  BY <1>1, <1>2, <1>3
<1>5. Head(events) \in Event /\ 1 \in DOMAIN events /\ Head(events) = events[1]
  BY <1>1, <1>2
<1>6. \A i \in DOMAIN t : \E j \in DOMAIN events : t[i] = events[j]
  <2>. SUFFICES ASSUME NEW i \in DOMAIN t PROVE \E j \in DOMAIN events : t[i] = events[j]
    OBVIOUS
  <2>1. i + 1 \in DOMAIN events /\ t[i] = events[i+1]
    BY <1>2, <1>4
  <2>. QED BY <2>1
<1>7. CASE events' = Tail(events) /\ UNCHANGED again
  BY <1>1, <1>3, <1>4, <1>5, <1>6, <1>7
<1>8. CASE again < MaxAgain /\ events' = Append(Tail(events), Head(events)) /\ again' = again + 1
  <2>1. PICK e : e = Append(t, Head(events))
    OBVIOUS
  <2>2. /\ e \in Seq(Event) /\ Len(e) = Len(t) + 1 /\ e[Len(t) + 1] = events[1]
        /\ \A i \in 1..Len(t) : e[i] = t[i]
    BY <1>4, <1>5, <2>1
  <2>3. \A i \in DOMAIN e : \E j \in DOMAIN events : e[i] = events[j]
    <3>. SUFFICES ASSUME NEW i \in DOMAIN e PROVE \E j \in DOMAIN events : e[i] = events[j]
      OBVIOUS
    <3>1. i \in 1..Len(t) \/ i = Len(t) + 1
      BY <2>2, <1>4
    <3>. QED BY <3>1, <2>2, <1>5, <1>6, <1>4
  <2>4. again' \in 0..MaxAgain
    BY <1>1, <1>8
  <2>. QED BY <1>3, <1>5, <1>8, <2>1, <2>2, <2>3, <2>4
<1>. QED BY <1>7, <1>8 DEF Takes

(* An event begins, or not, and nothing else happens but to the prompts.    *)
LEMMA EventFact ==
    ASSUME UnfurlInv, events # <<>>, Takes,
           NEW n \in Work \cup {None}, n # None => InTheMaking(n), work' = n,
           prompts' \in SUBSET Messages,
           UNCHANGED <<world, posted, chosen, cache, auto, failed>>
    PROVE  UnfurlInv'
<1>1. UNCHANGED <<now, members, guests, artifact, since, posted, chosen,
                  guestList, channel, files, failures, auto, failed>>
  BY DEF world, cache
<1>2. UnfurlTypeOK'
  BY <1>1, TakesFact DEF UnfurlInv, UnfurlTypeOK
<1>3. n # None => InTheMaking(n)'
  BY <1>1, MakingKeeps
<1>4. work' # None => InTheMaking(work)'
  BY <1>3
<1>5. ClicksHeard'
  BY <1>1, TakesFact DEF UnfurlInv, ClicksHeard
<1>6. CacheSound' /\ ContentByRight'
  BY <1>1, CacheKeeps, ContentKeeps DEF UnfurlInv
<1>. QED BY <1>2, <1>4, <1>5, <1>6 DEF UnfurlInv

\* Handling a shared link keeps the invariant.
LEMMA LinkFact == ASSUME UnfurlInv, HandleLinkShared PROVE UnfurlInv'
<1>1. Head(events).msg \in Messages
  BY TakesFact DEF HandleLinkShared, Event
<1>2. PICK m \in Messages : m = Head(events).msg
  BY <1>1
<1>3. PICK n : n = Begin(m, "info", "full", FALSE)
  OBVIOUS
<1>4. n \in Work /\ InTheMaking(n)
  BY <1>3, BeginFact DEF Choices
<1>5. prompts' \in SUBSET Messages
  BY DEF HandleLinkShared, UnfurlInv, UnfurlTypeOK
<1>. QED BY <1>2, <1>3, <1>4, <1>5, EventFact DEF HandleLinkShared

\* Handling an answer keeps the invariant: only the sharer's own choice is heeded.
LEMMA ConsentFact == ASSUME UnfurlInv, HandleConsent PROVE UnfurlInv'
<1>1. PICK e : e = Head(events)
  OBVIOUS
<1>2. e \in Event /\ e.type = "click" /\ e = events[1] /\ 1 \in DOMAIN events
  BY <1>1, TakesFact DEF HandleConsent
<1>3. e.msg \in Messages /\ e.choice \in Choices
  BY <1>2 DEF Event
<1>4. prompts' \in SUBSET Messages
  BY DEF HandleConsent, UnfurlInv, UnfurlTypeOK
<1>5. CASE Heeded(e)
  <2>1. PICK s \in {"respond", "meta"} : s = IF e.choice = "none" THEN "respond" ELSE "meta"
    OBVIOUS
  <2>2. PICK n : n = Begin(e.msg, s, e.choice, TRUE)
    OBVIOUS
  <2>3. s = "meta" => e.choice = "title" \/ (e.choice = "full" /\ e.msg \in chosen)
    BY <1>2, <1>3, <1>5, <2>1 DEF Heeded, Choices, UnfurlInv, ClicksHeard
  <2>4. n \in Work /\ InTheMaking(n)
    BY <1>3, <2>2, <2>3, BeginFact
  <2>5. work' = n
    BY <1>1, <1>5, <2>1, <2>2 DEF HandleConsent
  <2>. QED BY <1>1, <1>4, <2>4, <2>5, EventFact DEF HandleConsent
<1>6. CASE ~Heeded(e)
  BY <1>1, <1>4, <1>6, EventFact DEF HandleConsent
<1>. QED BY <1>5, <1>6

\* Removing an answered prompt keeps the invariant.
LEMMA RespondFact == ASSUME UnfurlInv, Respond PROVE UnfurlInv'
<1>1. prompts' \in SUBSET Messages
  BY DEF Respond, UnfurlInv, UnfurlTypeOK
<1>. QED BY <1>1, PromptStep DEF Respond

\* Asking Slack about the conversation keeps the invariant.
LEMMA InfoFact == ASSUME UnfurlInv, Info PROVE UnfurlInv'
<1>0. work \in Work /\ work # None /\ work.step = "info" /\ InTheMaking(work)
  BY WorkFact DEF Info
<1>1. ASSUME NEW s \in {"check", "ask"}, ServeTo(s) PROVE UnfurlInv'
  <2>1. PICK n : n = [work EXCEPT !.step = s]
    OBVIOUS
  <2>2. n \in Work
    BY <1>0, <2>1 DEF Work
  <2>3. InTheMaking(n)
    BY <1>0, <2>1 DEF Work, InTheMaking, MayShow, PutTogether, Unflagged, CheckedAt, Previews
  <2>. QED BY <1>1, <2>1, <2>2, <2>3, ServeStep DEF Info, ServeTo
<1>2. CASE ServeEnds
  BY <1>2, ServeEndsFact, ServeStep DEF Info
<1>. QED BY <1>1, <1>2 DEF Info

(* A step of the check of the conversation.                                 *)
LEMMA GuestStep ==
    ASSUME UnfurlInv, NEW n \in Work, work' = n, InTheMaking(n)',
           guestList' \in GuestList \cup {None}, channel' \in Channel \cup {None},
           auto' \in SUBSET Messages, auto \subseteq auto', ListSound', ChannelSound',
           UNCHANGED <<world, slack, files, failures, failed>>
    PROVE  UnfurlInv'
<1>1. UNCHANGED <<now, members, guests, artifact, since, events, again, prompts, posted, chosen,
                  files, failures, failed>>
  BY DEF world, slack
<1>2. UnfurlTypeOK'
  BY <1>1 DEF UnfurlInv, UnfurlTypeOK
<1>3. CacheSound'
  BY <1>1 DEF UnfurlInv, CacheSound, GuestsSince, RefusalsKept
<1>4. ClicksHeard' /\ ContentByRight'
  BY <1>1, ClicksKeep, ContentKeeps DEF UnfurlInv
<1>. QED BY <1>2, <1>3, <1>4 DEF UnfurlInv

(* To ask the sharer is always right.                                       *)
LEMMA AskFirst ==
    ASSUME UnfurlInv, work # None, NEW s \in {"list", "members"}, ServeAt(s) \/ ServeAt("check")
    PROVE  /\ [work EXCEPT !.step = "ask"] \in Work
           /\ InTheMaking([work EXCEPT !.step = "ask"])
<1>1. work \in Work /\ work.step \in {"check", "list", "members"} /\ InTheMaking(work)
  BY WorkFact DEF ServeAt
<1>2. PICK n : n = [work EXCEPT !.step = "ask"]
  OBVIOUS
<1>3. n \in Work
  BY <1>1, <1>2 DEF Work
<1>4. InTheMaking(n)
  BY <1>1, <1>2 DEF Work, InTheMaking, MayShow, PutTogether, Unflagged, CheckedAt, Previews
<1>. QED BY <1>2, <1>3, <1>4

\* A conversation found without guests is told the content at once: its preview may begin.
LEMMA MembersOnly ==
    ASSUME UnfurlInv, NEW w \in Work, auto' = auto \cup {w.msg}, UNCHANGED <<artifact, chosen>>,
           NEW n, NEW no \in BOOLEAN, no = FALSE,
           n = [Begin(w.msg, "meta", "full", no) EXCEPT !.at = w.at]
    PROVE  n \in Work /\ InTheMaking(n)'
<1>2. w.msg \in Messages /\ w.at \in Times /\ "full" \in Choices
  BY DEF Work, Choices
<1>3. n = [step |-> "meta", msg |-> w.msg, choice |-> "full", answers |-> FALSE, at |-> w.at,
           hidden |-> FALSE, shows |-> None, card |-> None, file |-> FALSE, try |-> 1,
           bad |-> IF artifact.flagged THEN {artifact.version} ELSE {}]
  BY DEF Begin
<1>4. n \in Work
  <2>1. artifact.version \in Versions
    BY DEF UnfurlInv, UnfurlTypeOK
  <2>2. PICK b \in SUBSET Versions : b = IF artifact.flagged THEN {artifact.version} ELSE {}
    BY <2>1
  <2>3. n = [step |-> "meta", msg |-> w.msg, choice |-> "full", answers |-> FALSE, at |-> w.at,
             hidden |-> FALSE, shows |-> None, card |-> None, file |-> FALSE, try |-> 1, bad |-> b]
    BY <1>3, <2>2
  <2>4. ASSUME NEW m \in Messages, NEW a \in Times
        PROVE  [step |-> "meta", msg |-> m, choice |-> "full", answers |-> FALSE, at |-> a, hidden |-> FALSE,
                shows |-> None, card |-> None, file |-> FALSE, try |-> 1, bad |-> b] \in Work
    BY DEF Work, Choices
  <2>. QED BY <1>2, <2>3, <2>4
<1>5. artifact.version \in Nat
  BY UnfurlNoneFact DEF UnfurlInv, UnfurlTypeOK
<1>8. /\ n.step = "meta" /\ n.msg = w.msg /\ n.choice = "full" /\ n.shows = None /\ n.file = FALSE
      /\ n.bad = IF artifact.flagged THEN {artifact.version} ELSE {}
  BY <1>3
<1>6. MayShow(n)' /\ PutTogether(n)' /\ CheckedAt(n)'
  BY <1>8 DEF MayShow, PutTogether, CheckedAt, Previews
<1>7. Unflagged(n)'
  BY <1>5, <1>8 DEF Unflagged
<1>. QED BY <1>4, <1>6, <1>7 DEF InTheMaking

\* The audience decides: shown at once, or asked first.
LEMMA ClassifyFact ==
    ASSUME UnfurlInv, ServeAt("check") \/ ServeAt("members"), NEW has \in BOOLEAN, Classify(has),
           channel' \in Channel \cup {None}, ChannelSound',
           UNCHANGED <<world, slack, guestList, files, failures, failed>>
    PROVE  UnfurlInv'
<1>0. work \in Work /\ work # None
  BY WorkFact DEF ServeAt
<1>1. UNCHANGED <<now, members, guests, artifact, since, chosen, guestList>>
  BY DEF world, slack
<1>2. guestList' \in GuestList \cup {None} /\ ListSound'
  BY <1>1 DEF UnfurlInv, UnfurlTypeOK, CacheSound, ListSound
<1>3. CASE has
  <2>1. PICK n : n = [work EXCEPT !.step = "ask"]
    OBVIOUS
  <2>2. n \in Work /\ InTheMaking(n) /\ work' = n /\ auto' = auto
    BY <1>0, <1>3, <2>1, AskFirst DEF Classify, ServeTo
  <2>3. InTheMaking(n)'
    BY <1>1, <2>2, MakingKeeps
  <2>4. auto' \in SUBSET Messages
    BY <2>2 DEF UnfurlInv, UnfurlTypeOK
  <2>. QED BY <1>2, <2>2, <2>3, <2>4, GuestStep
<1>4. CASE ~has
  <2>0. PICK no \in BOOLEAN : no = FALSE
    OBVIOUS
  <2>1. PICK n : n = [Begin(work.msg, "meta", "full", no) EXCEPT !.at = work.at]
    OBVIOUS
  <2>2. work' = n /\ auto' = auto \cup {work.msg}
    BY <1>4, <2>0, <2>1 DEF Classify, Begin
  <2>3. n \in Work /\ InTheMaking(n)'
    BY <1>0, <1>1, <2>0, <2>1, <2>2, MembersOnly
  <2>4. auto' \in SUBSET Messages
    BY <1>0, <2>2 DEF UnfurlInv, UnfurlTypeOK, Work
  <2>. QED BY <1>2, <2>2, <2>3, <2>4, GuestStep
<1>. QED BY <1>3, <1>4

\* Looking into the cache keeps the invariant.
LEMMA CheckFact == ASSUME UnfurlInv, Check PROVE UnfurlInv'
<1>0. work \in Work /\ work # None /\ work.step = "check" /\ InTheMaking(work)
  BY WorkFact DEF Check
<1>1. CASE Checked
  <2>1. channel # None /\ channel.has \in BOOLEAN
    BY <1>1 DEF Checked, UnfurlInv, UnfurlTypeOK, Channel
  <2>2. UNCHANGED <<now, since, channel, guestList, files, failures>>
    BY DEF Check, world, cache
  <2>3. channel' \in Channel \cup {None} /\ ChannelSound'
    BY <2>2 DEF UnfurlInv, UnfurlTypeOK, CacheSound, ChannelSound
  <2>. QED BY <1>1, <2>1, <2>2, <2>3, ClassifyFact DEF Check
<1>2. CASE ~Checked
  <2>1. PICK s \in {"members", "list"} :
              /\ s = IF guestList # None /\ now - guestList.at < GuestTTL THEN "members" ELSE "list"
              /\ work' = [work EXCEPT !.at = now, !.step = s]
    BY <1>2 DEF Check
  <2>2. PICK n : n = [work EXCEPT !.at = now, !.step = s]
    OBVIOUS
  <2>3. now \in Times /\ now \in Nat /\ (guestList # None => guestList.at \in Nat) /\ GuestTTL \in Nat
    BY UnfurlNoneFact, UnfurlAssumption DEF UnfurlInv, UnfurlTypeOK, GuestList
  <2>4. n \in Work
    BY <1>0, <2>2, <2>3 DEF Work
  <2>5. CheckedAt(n)
    BY <1>0, <2>1, <2>2, <2>3 DEF Work, CheckedAt
  <2>6. InTheMaking(n)
    BY <1>0, <2>2, <2>5 DEF Work, InTheMaking, MayShow, PutTogether, Unflagged, Previews
  <2>. QED BY <1>2, <2>1, <2>2, <2>4, <2>6, ServeStep DEF Check
<1>. QED BY <1>1, <1>2

\* Listing the guests keeps the invariant.
LEMMA ListGuestsFact == ASSUME UnfurlInv, ListGuests PROVE UnfurlInv'
<1>0. work \in Work /\ work # None /\ work.step = "list" /\ InTheMaking(work)
  BY WorkFact DEF ListGuests
<1>1. UNCHANGED <<now, members, guests, since, artifact, chosen, auto>>
  BY DEF ListGuests, world, slack
<1>2. auto' \in SUBSET Messages
  BY <1>1 DEF UnfurlInv, UnfurlTypeOK
<1>3. CASE guestList' = [ids |-> guests, at |-> work.at] /\ channel' = None /\ ServeTo("members")
  <2>1. PICK n : n = [work EXCEPT !.step = "members"]
    OBVIOUS
  <2>2. work.at <= now /\ now \in Nat /\ work.at \in Nat /\ work.at \in Times /\ GuestTTL \in Nat \ {0}
    BY <1>0, UnfurlNoneFact, UnfurlAssumption
    DEF UnfurlInv, UnfurlTypeOK, InTheMaking, CheckedAt, Work
  <2>3. guestList' \in GuestList /\ guestList' # None
    BY <1>3, <2>2, UnfurlNoneFact DEF GuestList, UnfurlInv, UnfurlTypeOK
  <2>4. ListSound' /\ ChannelSound'
    BY <1>1, <1>3, <2>2 DEF UnfurlInv, CacheSound, GuestsSince, ListSound, ChannelSound
  <2>5. n \in Work
    BY <1>0, <2>1 DEF Work
  <2>6. CheckedAt(n)'
    BY <1>0, <1>1, <1>3, <2>1, <2>2, <2>3 DEF Work, CheckedAt
  <2>7. MayShow(n)' /\ PutTogether(n)' /\ Unflagged(n)'
    BY <1>0, <1>1, <2>1 DEF Work, InTheMaking, MayShow, PutTogether, Unflagged, Previews
  <2>. QED BY <1>1, <1>2, <1>3, <2>1, <2>3, <2>4, <2>5, <2>6, <2>7, GuestStep
           DEF ListGuests, ServeTo, InTheMaking
<1>4. CASE ServeTo("ask") /\ UNCHANGED <<guestList, channel>>
  <2>1. PICK n : n = [work EXCEPT !.step = "ask"]
    OBVIOUS
  <2>2. n \in Work /\ InTheMaking(n)
    BY <1>0, <2>1, AskFirst DEF ServeAt
  <2>. QED BY <1>4, <2>1, <2>2, ServeStep DEF ListGuests, ServeTo, cache
<1>. QED BY <1>3, <1>4 DEF ListGuests

\* Listing the members keeps the invariant.
LEMMA ListMembersFact == ASSUME UnfurlInv, ListMembers PROVE UnfurlInv'
<1>0. work \in Work /\ work # None /\ work.step = "members" /\ InTheMaking(work)
  BY WorkFact DEF ListMembers
<1>1. UNCHANGED <<now, members, guests, since, artifact, chosen, guestList>>
  BY DEF ListMembers, world, slack
<1>2. PICK has \in BOOLEAN : has = (members \cap guestList.ids # {})
  OBVIOUS
<1>3. CASE channel' = [has |-> has, at |-> work.at] /\ Classify(has)
  <2>1. /\ work.at <= now /\ now \in Nat /\ work.at \in Nat /\ work.at \in Times /\ GuestTTL \in Nat \ {0}
        /\ guestList # None /\ work.at < guestList.at + GuestTTL
    BY <1>0, UnfurlNoneFact, UnfurlAssumption
    DEF UnfurlInv, UnfurlTypeOK, InTheMaking, CheckedAt, Work
  <2>2. channel' \in Channel
    BY <1>3, <2>1 DEF Channel
  <2>3. guestList.at \in Nat /\ \A u \in Users : since[u] # None => since[u] \in Nat
    BY <2>1, UnfurlNoneFact DEF UnfurlInv, UnfurlTypeOK, GuestList
  <2>4. ChannelSound'
    <3>1. channel'.at = work.at /\ channel'.has = has
      BY <1>3, <2>1
    <3>2. ASSUME ~has, NEW u \in Users, since[u] # None PROVE work.at < since[u] + GuestTTL
      <4>1. u \in members /\ u \notin guestList.ids
        BY <1>2, <3>2 DEF UnfurlInv, CacheSound, GuestsSince
      <4>2. guestList.at <= since[u]
        BY <2>1, <3>2, <4>1 DEF UnfurlInv, CacheSound, ListSound
      <4>. QED BY <2>1, <2>3, <3>2, <4>2
    <3>. QED BY <1>1, <2>1, <3>1, <3>2 DEF ChannelSound
  <2>. QED BY <1>3, <2>2, <2>4, ClassifyFact DEF ListMembers
<1>4. CASE ServeTo("ask") /\ UNCHANGED <<channel, auto>>
  <2>1. PICK n : n = [work EXCEPT !.step = "ask"]
    OBVIOUS
  <2>2. n \in Work /\ InTheMaking(n)
    BY <1>0, <2>1, AskFirst DEF ServeAt
  <2>. QED BY <1>4, <2>1, <2>2, ServeStep DEF ListMembers, ServeTo, cache
<1>. QED BY <1>2, <1>3, <1>4 DEF ListMembers

\* Asking the sharer keeps the invariant.
LEMMA AskFact == ASSUME UnfurlInv, Ask PROVE UnfurlInv'
<1>0. work \in Work /\ work.msg \in Messages
  BY WorkFact DEF Ask, Work
<1>1. prompts' \in SUBSET Messages
  BY <1>0 DEF Ask, UnfurlInv, UnfurlTypeOK
<1>2. PICK n \in Work \cup {None} : work' = n /\ (n # None => InTheMaking(n))
  BY ServeEndsFact DEF Ask
<1>. QED BY <1>1, <1>2, PromptStep DEF Ask

\* Reading the flag keeps the invariant.
LEMMA MetadataFact == ASSUME UnfurlInv, ReadMetadata PROVE UnfurlInv'
<1>0. work \in Work /\ work # None /\ work.step = "meta" /\ InTheMaking(work)
  BY WorkFact DEF ReadMetadata
<1>1. PICK s \in {"card", "head"} : s = IF artifact.flagged THEN "card" ELSE "head"
  OBVIOUS
<1>2. PICK n : n = [work EXCEPT !.hidden = artifact.flagged, !.step = s]
  OBVIOUS
<1>3. artifact.flagged \in BOOLEAN /\ artifact.version \in Nat
  BY UnfurlNoneFact DEF UnfurlInv, UnfurlTypeOK
<1>4. n \in Work
  BY <1>0, <1>2, <1>3 DEF Work
<1>5. /\ n.step = s /\ n.msg = work.msg /\ n.choice = work.choice /\ n.shows = work.shows
      /\ n.file = work.file /\ n.card = work.card /\ n.bad = work.bad
  BY <1>0, <1>2 DEF Work
<1>6. MayShow(n) /\ PutTogether(n) /\ CheckedAt(n)
  BY <1>0, <1>1, <1>5 DEF InTheMaking, MayShow, PutTogether, CheckedAt, Previews
<1>7. Unflagged(n)
  <2>1. \A v \in n.bad : v \in Nat /\ v <= artifact.version
                         /\ (v = artifact.version => artifact.flagged)
    BY <1>0, <1>5, UnfurlNoneFact DEF InTheMaking, Unflagged, Work
  <2>2. s = "head" => ~artifact.flagged
    BY <1>1
  <2>3. n.shows = None
    BY <1>0, <1>5 DEF InTheMaking, PutTogether
  <2>. QED BY <1>3, <1>5, <2>1, <2>2, <2>3 DEF Unflagged
<1>8. CASE ServeEnds
  BY <1>8, ServeEndsFact, ServeStep DEF ReadMetadata
<1>9. CASE work' = n
  BY <1>4, <1>6, <1>7, <1>9, ServeStep DEF ReadMetadata, InTheMaking
<1>. QED BY <1>1, <1>2, <1>8, <1>9 DEF ReadMetadata

\* Reading the content keeps the invariant: a version that was flagged at the start is not quoted.
LEMMA HeadAsksFact == ASSUME UnfurlInv, ReadHead PROVE UnfurlInv'
<1>0. work \in Work /\ work # None /\ work.step = "head" /\ InTheMaking(work)
  BY WorkFact DEF ReadHead
<1>1. artifact.version \in Versions /\ artifact.version \in Nat
  BY UnfurlNoneFact DEF UnfurlInv, UnfurlTypeOK
<1>2. work.shows = None
  BY <1>0 DEF InTheMaking, PutTogether
<1>3. ASSUME NEW x \in Versions \cup {None}, x # None => x = artifact.version,
             work' = [work EXCEPT !.shows = x, !.step = "card"]
      PROVE  UnfurlInv'
  <2>1. PICK n : n = [work EXCEPT !.shows = x, !.step = "card"]
    OBVIOUS
  <2>2. n \in Work
    BY <1>0, <2>1 DEF Work
  <2>3. /\ n.step = "card" /\ n.msg = work.msg /\ n.choice = work.choice /\ n.shows = x
        /\ n.file = work.file /\ n.card = work.card /\ n.bad = work.bad
    BY <1>0, <2>1 DEF Work
  <2>4. MayShow(n) /\ PutTogether(n) /\ CheckedAt(n)
    BY <1>0, <2>3 DEF InTheMaking, MayShow, PutTogether, CheckedAt, Previews
  <2>5. Unflagged(n)
    BY <1>0, <1>1, <1>3, <2>3 DEF InTheMaking, Unflagged
  <2>. QED BY <1>3, <2>1, <2>2, <2>4, <2>5, ServeStep DEF ReadHead, InTheMaking
<1>4. CASE work' = [work EXCEPT !.shows = artifact.version, !.step = "card"]
  BY <1>1, <1>3, <1>4
<1>5. CASE ServeTo("card")
  <2>1. work' = [work EXCEPT !.shows = None, !.step = "card"]
    BY <1>0, <1>2, <1>5 DEF ServeTo, Work
  <2>. QED BY <1>3, <2>1
<1>. QED BY <1>4, <1>5 DEF ReadHead

\* Reading the card keeps the invariant.
LEMMA CardFact == ASSUME UnfurlInv, ReadCard PROVE UnfurlInv'
<1>0. work \in Work /\ work # None /\ work.step = "card" /\ InTheMaking(work)
  BY WorkFact DEF ReadCard
<1>1. PICK hidden \in BOOLEAN : hidden = (work.hidden \/ work.choice = "title")
  OBVIOUS
<1>2. ASSUME NEW x \in Images \cup {None}, x # None => ~hidden,
             work' = [work EXCEPT !.hidden = hidden, !.card = x,
                                  !.shows = IF hidden THEN None ELSE @,
                                  !.step = IF x = None THEN "unfurl" ELSE "file"]
      PROVE  UnfurlInv'
  <2>1. PICK s \in {"unfurl", "file"} : s = IF x = None THEN "unfurl" ELSE "file"
    OBVIOUS
  <2>2. PICK v \in Versions \cup {None} : v = IF hidden THEN None ELSE work.shows
    BY <1>0 DEF Work
  <2>3. PICK n : n = [work EXCEPT !.hidden = hidden, !.card = x, !.shows = v, !.step = s]
    OBVIOUS
  <2>4. n \in Work /\ work' = n
    BY <1>0, <1>2, <2>1, <2>2, <2>3 DEF Work
  <2>5. /\ n.step = s /\ n.msg = work.msg /\ n.choice = work.choice /\ n.shows = v
        /\ n.file = work.file /\ n.card = x /\ n.bad = work.bad /\ n.hidden = hidden
    BY <1>0, <2>3 DEF Work
  <2>6. n.choice = "title" => hidden
    BY <1>1, <2>5
  <2>7. MayShow(n) /\ PutTogether(n) /\ CheckedAt(n)
    BY <1>0, <1>2, <2>1, <2>2, <2>5, <2>6
    DEF InTheMaking, MayShow, PutTogether, CheckedAt, Previews
  <2>8. Unflagged(n)
    BY <1>0, <2>1, <2>2, <2>5 DEF InTheMaking, Unflagged
  <2>. QED BY <2>4, <2>7, <2>8, ServeStep DEF ReadCard, InTheMaking
<1>3. CASE ServeEnds
  BY <1>3, ServeEndsFact, ServeStep DEF ReadCard
<1>. QED BY <1>1, <1>2, <1>3 DEF ReadCard

(* A step of the card's file.                                               *)
LEMMA FilesStep ==
    ASSUME UnfurlInv, NEW n \in Work \cup {None}, n # None => InTheMaking(n), work' = n,
           files' \in SUBSET Images,
           failures' \in [Images -> Times \cup {None}], failed' \in [Images -> Times \cup {None}],
           RefusalsKept', posted' \in [Messages -> {"hidden", "content", None}], ContentByRight',
           UNCHANGED <<world, events, again, prompts, chosen, guestList, channel, auto>>
    PROVE  UnfurlInv'
<1>1. UNCHANGED <<now, members, guests, artifact, since, events, again, prompts, chosen,
                  guestList, channel, auto>>
  BY DEF world
<1>2. UnfurlTypeOK'
  BY <1>1 DEF UnfurlInv, UnfurlTypeOK
<1>3. n # None => InTheMaking(n)'
  BY <1>1, MakingKeeps
<1>4. work' # None => InTheMaking(work)'
  BY <1>3
<1>5. CacheSound'
  BY <1>1 DEF UnfurlInv, CacheSound, GuestsSince, ListSound, ChannelSound
<1>6. ClicksHeard'
  BY <1>1, ClicksKeep DEF UnfurlInv
<1>. QED BY <1>2, <1>4, <1>5, <1>6 DEF UnfurlInv

(* From the card's file to the unfurl, with it or without.                  *)
LEMMA FileDone ==
    ASSUME UnfurlInv, ServeAt("file"), NEW b \in BOOLEAN,
           NEW n, n = [work EXCEPT !.file = b, !.step = "unfurl"]
    PROVE  n \in Work /\ InTheMaking(n)
<1>0. work \in Work /\ work # None /\ work.step = "file" /\ InTheMaking(work)
  BY WorkFact
<1>1. n \in Work
  BY <1>0 DEF Work
<1>2. /\ n.step = "unfurl" /\ n.msg = work.msg /\ n.choice = work.choice /\ n.shows = work.shows
      /\ n.file = b /\ n.card = work.card /\ n.bad = work.bad
  BY <1>0 DEF Work
<1>. QED BY <1>0, <1>1, <1>2
         DEF InTheMaking, MayShow, PutTogether, Unflagged, CheckedAt, Previews

\* A refusal is remembered for a while.
LEMMA RefuseFact ==
    ASSUME UnfurlInv, NEW x \in Images, Refuse(x), files' = files \/ files' = files \ {x}
    PROVE  /\ failures' \in [Images -> Times \cup {None}] /\ failed' \in [Images -> Times \cup {None}]
           /\ RefusalsKept'
BY DEF UnfurlInv, UnfurlTypeOK, CacheSound, RefusalsKept, Refuse

\* Looking for the uploaded image keeps the invariant.
LEMMA FileIDFact == ASSUME UnfurlInv, FileID PROVE UnfurlInv'
<1>0. work \in Work /\ work # None /\ work.step = "file" /\ InTheMaking(work) /\ ServeAt("file")
  BY WorkFact DEF FileID
<1>1. UNCHANGED <<world, slack, cache, auto, failed>>
  BY DEF FileID, cache
<1>2. CASE work' = [work EXCEPT !.file = TRUE, !.step = "unfurl"]
  <2>1. PICK n : n = [work EXCEPT !.file = TRUE, !.step = "unfurl"]
    OBVIOUS
  <2>. QED BY <1>0, <1>1, <1>2, <2>1, FileDone, ServeStep
<1>3. CASE ServeTo("unfurl")
  <2>1. work.file = FALSE
    BY <1>0 DEF InTheMaking, PutTogether, Work
  <2>2. PICK n : n = [work EXCEPT !.file = FALSE, !.step = "unfurl"]
    OBVIOUS
  <2>3. work' = n
    BY <1>0, <1>3, <2>1, <2>2 DEF ServeTo, Work
  <2>. QED BY <1>0, <1>1, <2>2, <2>3, FileDone, ServeStep
<1>. QED BY <1>2, <1>3 DEF FileID

\* Uploading the image keeps the invariant.
LEMMA UploadFact == ASSUME UnfurlInv, Upload PROVE UnfurlInv'
<1>0. work \in Work /\ work # None /\ work.step = "file" /\ InTheMaking(work) /\ ServeAt("file")
  BY WorkFact DEF Upload
<1>1. PICK x \in Images : x = work.card
  BY <1>0 DEF Work, InTheMaking, PutTogether
<1>2. UNCHANGED <<world, events, again, prompts, posted, chosen, guestList, channel, auto>>
  BY DEF Upload, slack
<1>3. posted' \in [Messages -> {"hidden", "content", None}] /\ ContentByRight'
  BY <1>2 DEF UnfurlInv, UnfurlTypeOK, ContentByRight
<1>4. ASSUME files' = files \cup {x}, failures' = [failures EXCEPT ![x] = None],
             work' = [work EXCEPT !.file = TRUE, !.step = "unfurl"], UNCHANGED failed
      PROVE  UnfurlInv'
  <2>1. PICK n : n = [work EXCEPT !.file = TRUE, !.step = "unfurl"]
    OBVIOUS
  <2>2. /\ files' \in SUBSET Images /\ failures' \in [Images -> Times \cup {None}]
        /\ failed' \in [Images -> Times \cup {None}] /\ RefusalsKept'
    BY <1>4 DEF UnfurlInv, UnfurlTypeOK, CacheSound, RefusalsKept
  <2>. QED BY <1>0, <1>2, <1>3, <1>4, <2>1, <2>2, FileDone, FilesStep
<1>5. ASSUME Refuse(x), ServeTo("unfurl"), UNCHANGED files PROVE UnfurlInv'
  <2>1. work.file = FALSE
    BY <1>0 DEF InTheMaking, PutTogether, Work
  <2>2. PICK n : n = [work EXCEPT !.file = FALSE, !.step = "unfurl"]
    OBVIOUS
  <2>3. work' = n
    BY <1>0, <1>5, <2>1, <2>2 DEF ServeTo, Work
  <2>4. files' \in SUBSET Images
    BY <1>5 DEF UnfurlInv, UnfurlTypeOK
  <2>. QED BY <1>0, <1>2, <1>3, <1>5, <2>2, <2>3, <2>4, FileDone, RefuseFact, FilesStep
<1>. QED BY <1>1, <1>4, <1>5 DEF Upload

(* What a message shows after the unfurl it may.                            *)
LEMMA ShownFact ==
    ASSUME UnfurlInv, ServeAt("unfurl"), UNCHANGED <<auto, chosen>>,
           UNCHANGED posted \/ posted' = [posted EXCEPT ![work.msg] = Shown]
    PROVE  posted' \in [Messages -> {"hidden", "content", None}] /\ ContentByRight'
<1>0. work \in Work /\ work.msg \in Messages /\ InTheMaking(work) /\ work.step = "unfurl"
  BY WorkFact DEF Work
<1>1. CASE UNCHANGED posted
  BY <1>1 DEF UnfurlInv, UnfurlTypeOK, ContentByRight
<1>2. CASE posted' = [posted EXCEPT ![work.msg] = Shown]
  <2>1. Shown = "content" => work.msg \in auto \/ work.msg \in chosen
    BY <1>0 DEF Shown, InTheMaking, MayShow, Previews
  <2>2. Shown \in {"hidden", "content"}
    BY DEF Shown
  <2>. QED BY <1>0, <1>2, <2>1, <2>2 DEF UnfurlInv, UnfurlTypeOK, ContentByRight
<1>. QED BY <1>1, <1>2

\* A preview that is shown is shown by right.
LEMMA UnfurledFact == ASSUME UnfurlInv, Unfurled PROVE UnfurlInv'
<1>1. UNCHANGED <<files, failures, failed, auto, chosen>>
  BY DEF Unfurled, cache
<1>2. /\ files' \in SUBSET Images /\ failures' \in [Images -> Times \cup {None}]
      /\ failed' \in [Images -> Times \cup {None}] /\ RefusalsKept'
  BY <1>1 DEF UnfurlInv, UnfurlTypeOK, CacheSound, RefusalsKept
<1>3. posted' \in [Messages -> {"hidden", "content", None}] /\ ContentByRight'
  BY <1>1, ShownFact DEF Unfurled
<1>4. PICK n \in Work \cup {None} : work' = n /\ (n # None => InTheMaking(n))
  BY ServeEndsFact DEF Unfurled
<1>. QED BY <1>2, <1>3, <1>4, FilesStep DEF Unfurled, cache

\* A failed unfurl keeps the invariant, the one without the image included.
LEMMA UnfurlFailsFact == ASSUME UnfurlInv, UnfurlFails PROVE UnfurlInv'
<1>0. work \in Work /\ work # None /\ work.step = "unfurl" /\ InTheMaking(work)
  BY WorkFact DEF UnfurlFails
<1>1. posted' \in [Messages -> {"hidden", "content", None}] /\ ContentByRight'
  BY ShownFact DEF UnfurlFails
<1>2. ASSUME UNCHANGED <<files, failures, failed>>
      PROVE  /\ files' \in SUBSET Images /\ failures' \in [Images -> Times \cup {None}]
             /\ failed' \in [Images -> Times \cup {None}] /\ RefusalsKept'
  BY <1>2 DEF UnfurlInv, UnfurlTypeOK, CacheSound, RefusalsKept
<1>3. ASSUME NEW t \in 1..3, NEW b \in BOOLEAN, b = FALSE \/ work.file,
             NEW n, n = [work EXCEPT !.try = t, !.file = b]
      PROVE  n \in Work /\ InTheMaking(n)
  <2>2. n \in Work
    BY <1>0, <1>3 DEF Work
  <2>3. /\ n.step = "unfurl" /\ n.msg = work.msg /\ n.choice = work.choice /\ n.shows = work.shows
        /\ n.file = b /\ n.card = work.card /\ n.bad = work.bad
    BY <1>0, <1>3 DEF Work
  <2>4. InTheMaking(n)
    BY <1>0, <1>3, <2>3 DEF InTheMaking, MayShow, PutTogether, Unflagged, CheckedAt, Previews
  <2>. QED BY <2>2, <2>4
<1>4. CASE work.file /\ work' = [work EXCEPT !.try = 2] /\ UNCHANGED <<files, failures, failed>>
  <2>1. PICK n : n = [work EXCEPT !.try = 2, !.file = TRUE]
    OBVIOUS
  <2>2. work' = n
    BY <1>0, <1>4, <2>1 DEF Work
  <2>3. n \in Work /\ InTheMaking(n)
    <3>1. 2 \in 1..3
      OBVIOUS
    <3>. QED BY <1>3, <1>4, <2>1, <3>1
  <2>. QED BY <1>1, <1>2, <1>4, <2>2, <2>3, FilesStep DEF UnfurlFails
<1>5. CASE work.file /\ work' = [work EXCEPT !.try = 3, !.file = FALSE] /\ Reject(work.card)
  <2>1. PICK n : n = [work EXCEPT !.try = 3, !.file = FALSE]
    OBVIOUS
  <2>2. work' = n
    BY <1>5, <2>1
  <2>3. n \in Work /\ InTheMaking(n)
    <3>1. 3 \in 1..3
      OBVIOUS
    <3>. QED BY <1>3, <2>1, <3>1
  <2>4. PICK x \in Images : x = work.card
    BY <1>0, <1>5 DEF Work, InTheMaking, PutTogether
  <2>5. files' = files \ {x} /\ Refuse(x)
    BY <1>5, <2>4 DEF Reject
  <2>6. files' \in SUBSET Images
    BY <2>5 DEF UnfurlInv, UnfurlTypeOK
  <2>. QED BY <1>1, <2>2, <2>3, <2>5, <2>6, RefuseFact, FilesStep DEF UnfurlFails
<1>6. CASE ServeEnds /\ UNCHANGED <<files, failures, failed>>
  <2>1. PICK n \in Work \cup {None} : work' = n /\ (n # None => InTheMaking(n))
    BY <1>6, ServeEndsFact DEF UnfurlFails
  <2>. QED BY <1>1, <1>2, <1>6, <2>1, FilesStep DEF UnfurlFails
<1>. QED BY <1>4, <1>5, <1>6 DEF UnfurlFails, TriesAgain

\* Sharing a link, or clicking on a prompt, keeps the invariant.
LEMMA ShareFact ==
    ASSUME UnfurlInv, NEW e \in Event, Arrives(e), chosen' \in SUBSET Messages,
           chosen \subseteq chosen',
           e.type = "click" /\ e.user = Sharer /\ e.choice = "full" => e.msg \in chosen'
    PROVE  UnfurlInv'
<1>1. UNCHANGED <<now, members, guests, artifact, since, again, prompts, posted, work,
                  guestList, channel, files, failures, auto, failed>>
  BY DEF Arrives, world, cache
<1>2. events \in Seq(Event) /\ work' = None
  BY DEF UnfurlInv, UnfurlTypeOK, Arrives
<1>3. /\ events' \in Seq(Event) /\ Len(events') = Len(events) + 1 /\ Len(events) \in Nat
      /\ events'[Len(events) + 1] = e
      /\ \A i \in 1..Len(events) : events'[i] = events[i]
  BY <1>2 DEF Arrives
<1>4. ClicksHeard'
  <2>. SUFFICES ASSUME NEW i \in 1..(Len(events) + 1),
                       events'[i].type = "click", events'[i].user = Sharer, events'[i].choice = "full"
                PROVE  events'[i].msg \in chosen'
    BY <1>3 DEF ClicksHeard
  <2>1. CASE i = Len(events) + 1
    BY <1>3, <2>1
  <2>2. CASE i # Len(events) + 1
    <3>1. i \in DOMAIN events /\ events'[i] = events[i]
      BY <1>2, <1>3, <2>2
    <3>. QED BY <3>1 DEF UnfurlInv, ClicksHeard
  <2>. QED BY <2>1, <2>2
<1>5. UnfurlTypeOK'
  BY <1>1, <1>3 DEF UnfurlInv, UnfurlTypeOK
<1>6. CacheSound' /\ ContentByRight'
  BY <1>1, CacheKeeps, ContentKeeps DEF UnfurlInv
<1>. QED BY <1>2, <1>4, <1>5, <1>6 DEF UnfurlInv

\* People who join, leave and become guests keep the invariant.
LEMMA PopulateFact ==
    ASSUME UnfurlInv, NEW ms \in SUBSET Users, NEW gs \in SUBSET Users, Populate(ms, gs)
    PROVE  UnfurlInv'
<1>1. UNCHANGED <<now, artifact, events, again, prompts, posted, chosen, work,
                  guestList, channel, files, failures, auto, failed>>
  BY DEF Populate, slack, cache
<1>2. now \in Times /\ now \in Nat /\ GuestTTL \in Nat \ {0}
  BY UnfurlNoneFact, UnfurlAssumption DEF UnfurlInv, UnfurlTypeOK
<1>3. /\ members' = ms /\ guests' = gs /\ since' \in [Users -> Times \cup {None}]
      /\ \A u \in Users : since'[u] # None <=> u \in ms /\ u \in gs
      /\ \A u \in Users : since'[u] # None => since'[u] = now \/ since'[u] = since[u]
  BY <1>2, UnfurlNoneFact DEF Populate, UnfurlInv, UnfurlTypeOK
<1>4. UnfurlTypeOK'
  BY <1>1, <1>3 DEF UnfurlInv, UnfurlTypeOK
<1>5. GuestsSince' /\ RefusalsKept'
  BY <1>1, <1>3 DEF UnfurlInv, CacheSound, GuestsSince, RefusalsKept
<1>6. ListSound'
  BY <1>1, <1>2, <1>3 DEF UnfurlInv, CacheSound, ListSound
<1>7. ChannelSound'
  <2>1. channel # None => channel.at \in Nat
    BY UnfurlNoneFact DEF UnfurlInv, UnfurlTypeOK, Channel
  <2>. QED BY <1>1, <1>2, <1>3, <2>1 DEF UnfurlInv, CacheSound, ChannelSound
<1>8. work # None => InTheMaking(work)'
  BY <1>1, MakingKeeps DEF UnfurlInv, UnfurlTypeOK
<1>9. ClicksHeard' /\ ContentByRight'
  BY <1>1, ClicksKeep, ContentKeeps DEF UnfurlInv
<1>. QED BY <1>1, <1>4, <1>5, <1>6, <1>7, <1>8, <1>9 DEF UnfurlInv, CacheSound

(* A flag, or another version.                                              *)
LEMMA ArtifactFact ==
    ASSUME UnfurlInv, NEW a \in [version: Versions, flagged: BOOLEAN], Artifact(a),
           \/ a.version = artifact.version /\ a.flagged
           \/ a.version = artifact.version + 1
    PROVE  UnfurlInv'
<1>1. UNCHANGED <<now, members, guests, since, events, again, prompts, posted, chosen, work,
                  guestList, channel, files, failures, auto, failed>>
  BY DEF Artifact, slack, cache
<1>2. artifact' = a /\ a.version \in Nat /\ artifact.version \in Nat
  BY UnfurlNoneFact DEF Artifact, UnfurlInv, UnfurlTypeOK
<1>3. UnfurlTypeOK'
  BY <1>1, <1>2 DEF UnfurlInv, UnfurlTypeOK
<1>4. ASSUME work # None PROVE InTheMaking(work)'
  <2>1. work \in Work /\ InTheMaking(work)
    BY <1>4 DEF UnfurlInv, UnfurlTypeOK
  <2>2. \A v \in work.bad : v \in Nat
    BY <2>1, UnfurlNoneFact DEF Work
  <2>3. Unflagged(work)'
    BY <1>1, <1>2, <2>1, <2>2 DEF InTheMaking, Unflagged
  <2>4. MayShow(work)' /\ PutTogether(work)' /\ CheckedAt(work)'
    BY <1>1, <2>1 DEF InTheMaking, MayShow, PutTogether, CheckedAt
  <2>. QED BY <2>3, <2>4 DEF InTheMaking
<1>5. work' # None => InTheMaking(work)'
  BY <1>1, <1>4
<1>6. CacheSound' /\ ClicksHeard' /\ ContentByRight'
  BY <1>1, CacheKeeps, ClicksKeep, ContentKeeps DEF UnfurlInv
<1>. QED BY <1>3, <1>5, <1>6 DEF UnfurlInv

\* Time keeps the invariant.
LEMMA ClockFact == ASSUME UnfurlInv, ClockTicks PROVE UnfurlInv'
<1>1. UNCHANGED <<artifact, members, guests, since, events, again, prompts, posted, chosen, work,
                  guestList, channel, files, failures, auto, failed>>
  BY DEF ClockTicks, slack, cache
<1>2. now \in Nat /\ now' = now + 1 /\ now' \in Times
  BY UnfurlNoneFact DEF ClockTicks, UnfurlInv, UnfurlTypeOK, Times
<1>3. UnfurlTypeOK'
  BY <1>1, <1>2 DEF UnfurlInv, UnfurlTypeOK
<1>4. work \in Work /\ work # None /\ work.at \in Nat /\ InTheMaking(work)
  BY WorkFact, UnfurlNoneFact DEF ClockTicks, Work
<1>5. InTheMaking(work)'
  BY <1>1, <1>2, <1>4 DEF InTheMaking, MayShow, PutTogether, Unflagged, CheckedAt
<1>6. CacheSound'
  <2>1. (channel # None => channel.at \in Nat) /\ (guestList # None => guestList.at \in Nat)
    BY UnfurlNoneFact DEF UnfurlInv, UnfurlTypeOK, Channel, GuestList
  <2>. QED BY <1>1, <1>2, <2>1
           DEF UnfurlInv, CacheSound, GuestsSince, ListSound, ChannelSound, RefusalsKept
<1>7. ClicksHeard' /\ ContentByRight'
  BY <1>1, ClicksKeep, ContentKeeps DEF UnfurlInv
<1>. QED BY <1>3, <1>5, <1>6, <1>7 DEF UnfurlInv

\* A restart keeps the invariant: work and caches are gone.
LEMMA UnfurlRestartFact == ASSUME UnfurlInv, UnfurlRestart PROVE UnfurlInv'
<1>1. UNCHANGED <<now, members, guests, artifact, since, events, again, prompts, posted, chosen, auto>>
  BY DEF UnfurlRestart, world, slack
<1>2. /\ work' = None /\ guestList' = None /\ channel' = None /\ files' = {}
      /\ failures' = [x \in Images |-> None] /\ failed' = [x \in Images |-> None]
  BY DEF UnfurlRestart
<1>3. UnfurlTypeOK'
  BY <1>1, <1>2 DEF UnfurlInv, UnfurlTypeOK
<1>4. CacheSound'
  BY <1>1, <1>2 DEF UnfurlInv, CacheSound, GuestsSince, ListSound, ChannelSound, RefusalsKept
<1>5. ClicksHeard' /\ ContentByRight'
  BY <1>1, ClicksKeep, ContentKeeps DEF UnfurlInv
<1>. QED BY <1>2, <1>3, <1>4, <1>5 DEF UnfurlInv

\* The invariant is inductive.
LEMMA UnfurlNextInv == UnfurlInv /\ [UnfurlNext]_unfurlVars => UnfurlInv'
<1>. SUFFICES ASSUME UnfurlInv, [UnfurlNext]_unfurlVars PROVE UnfurlInv'
  OBVIOUS
<1>1. CASE HandleLinkShared
  BY <1>1, LinkFact
<1>2. CASE HandleConsent
  BY <1>2, ConsentFact
<1>3. CASE Info
  BY <1>3, InfoFact
<1>4. CASE Check
  BY <1>4, CheckFact
<1>5. CASE ListGuests
  BY <1>5, ListGuestsFact
<1>6. CASE ListMembers
  BY <1>6, ListMembersFact
<1>7. CASE Ask
  BY <1>7, AskFact
<1>8. CASE ReadMetadata
  BY <1>8, MetadataFact
<1>9. CASE ReadHead
  BY <1>9, HeadAsksFact
<1>10. CASE ReadCard
  BY <1>10, CardFact
<1>11. CASE FileID
  BY <1>11, FileIDFact
<1>12. CASE Upload
  BY <1>12, UploadFact
<1>13. CASE Unfurled
  BY <1>13, UnfurledFact
<1>14. CASE UnfurlFails
  BY <1>14, UnfurlFailsFact
<1>15. ASSUME NEW u \in Users, Join(u) \/ Leave(u) \/ MakeGuest(u) PROVE UnfurlInv'
  <2>1. members \in SUBSET Users /\ guests \in SUBSET Users
    BY DEF UnfurlInv, UnfurlTypeOK
  <2>2. PICK ms \in SUBSET Users : \E gs \in SUBSET Users : Populate(ms, gs)
    <3>1. members \cup {u} \in SUBSET Users /\ members \ {u} \in SUBSET Users
          /\ guests \cup {u} \in SUBSET Users
      BY <2>1
    <3>. QED BY <1>15, <2>1, <3>1 DEF Join, Leave, MakeGuest
  <2>. QED BY <2>2, PopulateFact
<1>16. CASE Flag
  <2>1. PICK a : a = [artifact EXCEPT !.flagged = TRUE]
    OBVIOUS
  <2>2. a \in [version: Versions, flagged: BOOLEAN] /\ a.version = artifact.version /\ a.flagged
    BY <2>1 DEF UnfurlInv, UnfurlTypeOK
  <2>. QED BY <1>16, <2>1, <2>2, ArtifactFact DEF Flag
<1>17. CASE Replace
  <2>1. PICK a : a = [version |-> artifact.version + 1, flagged |-> FALSE]
    OBVIOUS
  <2>2. artifact.version + 1 \in Versions
    BY <1>17, UnfurlAssumption DEF Replace, UnfurlInv, UnfurlTypeOK, Versions
  <2>3. a \in [version: Versions, flagged: BOOLEAN] /\ a.version = artifact.version + 1
    BY <2>1, <2>2
  <2>. QED BY <1>17, <2>1, <2>3, ArtifactFact DEF Replace
<1>18. ASSUME NEW m \in Messages, Share(m) PROVE UnfurlInv'
  <2>1. PICK e : e = [type |-> "link", msg |-> m]
    OBVIOUS
  <2>2. e \in Event /\ e.type # "click"
    BY <2>1 DEF Event
  <2>3. chosen' = chosen /\ chosen \in SUBSET Messages
    BY <1>18 DEF Share, UnfurlInv, UnfurlTypeOK
  <2>. QED BY <1>18, <2>1, <2>2, <2>3, ShareFact DEF Share
<1>19. ASSUME NEW m \in Messages, NEW u \in Users, NEW c \in Choices, Click(m, u, c) PROVE UnfurlInv'
  <2>1. PICK e : e = [type |-> "click", msg |-> m, user |-> u, choice |-> c]
    OBVIOUS
  <2>2. e \in Event /\ e.user = u /\ e.choice = c /\ e.msg = m
    BY <2>1 DEF Event
  <2>3. /\ chosen' \in SUBSET Messages /\ chosen \subseteq chosen'
        /\ u = Sharer /\ c = "full" => m \in chosen'
    BY <1>19 DEF Click, UnfurlInv, UnfurlTypeOK
  <2>. QED BY <1>19, <2>1, <2>2, <2>3, ShareFact DEF Click
<1>20. CASE ClockTicks
  BY <1>20, ClockFact
<1>21. CASE UnfurlRestart
  BY <1>21, UnfurlRestartFact
<1>23. CASE Respond
  BY <1>23, RespondFact
<1>22. CASE UNCHANGED unfurlVars
  <2>1. UNCHANGED <<world, slack, cache, auto, failed, work>>
    BY <1>22 DEF unfurlVars
  <2>2. work \in Work \cup {None} /\ (work # None => InTheMaking(work))
    BY DEF UnfurlInv, UnfurlTypeOK
  <2>. QED BY <2>1, <2>2, ServeStep
<1>. QED BY <1>1, <1>2, <1>3, <1>4, <1>5, <1>6, <1>7, <1>8, <1>9, <1>10, <1>11, <1>12, <1>13, <1>14,
            <1>15, <1>16, <1>17, <1>18, <1>19, <1>20, <1>21, <1>22, <1>23
         DEF UnfurlNext, Serve, World

\* The inductive invariant of previews, prompts and caches.
THEOREM UnfurlInvariance == UnfurlSpec => []UnfurlInv
BY UnfurlInitInv, UnfurlNextInv, PTL DEF UnfurlSpec

\* Content is shown only for a message posted where nobody was found to be a guest, or
\* whose own sharer chose so (HandleLinkShared, HandleConsent).
THEOREM ContentOnlyByRight == UnfurlSpec => []ContentByRight
<1>1. UnfurlInv => ContentByRight
  BY DEF UnfurlInv
<1>. QED BY <1>1, UnfurlInvariance, PTL

\* No version is quoted that was flagged when its preview was begun (describe, readHead).
THEOREM QuotesAreSound == UnfurlSpec => []QuotesSound
<1>1. UnfurlInv => QuotesSound
  BY WorkFact DEF UnfurlInv, QuotesSound, FlaggedNotQuoted, ServeAt, InTheMaking, Unflagged
<1>. QED BY <1>1, UnfurlInvariance, PTL

\* Where somebody has been a guest for longer than the two caches may hide it, the sharer is
\* asked first (guestDirectory.hasGuests).
THEOREM LongGuestsAreAsked == UnfurlSpec => GuestsAsked
<1>1. ASSUME UnfurlInv, [UnfurlNext]_unfurlVars, ServeAt("check") \/ ServeAt("members"),
             work' # None, work'.step = "meta",
             NEW u \in Users, since[u] # None,
             NEW clock, clock = IF ServeAt("check") THEN now ELSE work.at
      PROVE  clock - since[u] < GuestTTL + ChannelTTL
  <2>0. /\ work \in Work /\ work # None /\ work.step \in {"check", "members"} /\ InTheMaking(work)
        /\ now \in Nat /\ since[u] \in Nat /\ GuestTTL \in Nat \ {0} /\ ChannelTTL \in Nat \ {0}
    BY <1>1, WorkFact, UnfurlNoneFact, UnfurlAssumption DEF ServeAt, UnfurlInv, UnfurlTypeOK
  <2>1. \/ Check \/ ListMembers
        \/ UNCHANGED work
        \/ work' = None
    BY <1>1, <2>0 DEF UnfurlNext, unfurlVars, Serve, World, HandleLinkShared, HandleConsent, Respond, Info,
         ListGuests, Ask, ReadMetadata, ReadHead, ReadCard, FileID, Upload, Unfurled, UnfurlFails,
         ServeAt, Join, Leave, MakeGuest, Populate, Flag, Replace, Artifact, Share, Click, Arrives,
         ClockTicks, UnfurlRestart
  <2>2. CASE Check
    <3>1. work.step = "check" /\ clock = now
      BY <1>1, <2>2 DEF Check, ServeAt
    <3>2. Checked /\ ~channel.has
      <4>1. CASE ~Checked
        BY <1>1, <2>0, <2>2, <4>1 DEF Check, Work
      <4>2. CASE Checked /\ channel.has
        BY <1>1, <2>0, <2>2, <4>2 DEF Check, Classify, ServeTo, Work
      <4>. QED BY <4>1, <4>2
    <3>3. channel.at \in Nat /\ channel.at < since[u] + GuestTTL
      BY <1>1, <3>2, UnfurlNoneFact
      DEF Checked, UnfurlInv, UnfurlTypeOK, CacheSound, ChannelSound, Channel
    <3>. QED BY <2>0, <3>1, <3>2, <3>3 DEF Checked
  <2>3. CASE ListMembers
    <3>1. work.step = "members" /\ clock = work.at /\ work.at \in Nat
      BY <1>1, <2>0, <2>3, UnfurlNoneFact DEF ListMembers, ServeAt, Work
    <3>2. PICK has \in BOOLEAN : has = (members \cap guestList.ids # {})
      OBVIOUS
    <3>3. ~has
      BY <1>1, <2>0, <2>3, <3>2 DEF ListMembers, Classify, ServeTo, Work
    <3>4. u \in members /\ u \notin guestList.ids
      BY <1>1, <3>2, <3>3 DEF UnfurlInv, CacheSound, GuestsSince
    <3>5. guestList # None /\ guestList.at \in Nat /\ work.at < guestList.at + GuestTTL
      BY <1>1, <2>0, <3>1, UnfurlNoneFact
      DEF InTheMaking, CheckedAt, UnfurlInv, UnfurlTypeOK, GuestList
    <3>6. guestList.at <= since[u]
      BY <1>1, <3>4, <3>5 DEF UnfurlInv, CacheSound, ListSound
    <3>. QED BY <2>0, <3>1, <3>5, <3>6
  <2>4. CASE UNCHANGED work
    BY <1>1, <2>0, <2>4
  <2>. QED BY <1>1, <2>1, <2>2, <2>3, <2>4
<1>2. UnfurlInv /\ [UnfurlNext]_unfurlVars =>
        [(ServeAt("check") \/ ServeAt("members")) /\ work' # None /\ work'.step = "meta" =>
           LET clock == IF ServeAt("check") THEN now ELSE work.at
           IN  \A u \in Users :
                   since[u] # None => clock - since[u] < GuestTTL + ChannelTTL]_unfurlVars
  BY <1>1
<1>. QED BY <1>2, UnfurlInvariance, PTL DEF UnfurlSpec, GuestsAsked

\* An image that Slack refused is not uploaded again within the time of the back-off
\* (cardUploader.fileID, reject).
THEOREM RefusedImagesBackOff == UnfurlSpec => RefusedBacksOff
<1>1. ASSUME UnfurlInv, [UnfurlNext]_unfurlVars, ServeAt("file"), files' # files,
             NEW x \in files' \ files, failed[x] # None
      PROVE  now - failed[x] >= CardTTL
  <2>0. work \in Work /\ work # None /\ work.step = "file" /\ InTheMaking(work)
    BY <1>1, WorkFact
  <2>1. Upload
    BY <1>1, <2>0 DEF UnfurlNext, unfurlVars, Serve, World, HandleLinkShared, HandleConsent, Respond, Info,
         Check, ListGuests, ListMembers, Ask, ReadMetadata, ReadHead, ReadCard, FileID, Unfurled,
         UnfurlFails, ServeAt, Join, Leave, MakeGuest, Populate, Flag, Replace, Artifact, Share, Click,
         Arrives, ClockTicks, UnfurlRestart, cache
  <2>2. x = work.card /\ ~FailedRecently(x) /\ x \in Images
    BY <1>1, <2>0, <2>1 DEF Upload, Work, InTheMaking, PutTogether
  <2>3. failures[x] = failed[x] /\ now \in Nat /\ failed[x] \in Nat /\ CardTTL \in Nat
    BY <1>1, <2>2, UnfurlNoneFact, UnfurlAssumption
    DEF UnfurlInv, UnfurlTypeOK, CacheSound, RefusalsKept
  <2>. QED BY <1>1, <2>2, <2>3 DEF FailedRecently
<1>2. UnfurlInv /\ [UnfurlNext]_unfurlVars =>
        [ServeAt("file") /\ files' # files =>
           \A x \in files' \ files : failed[x] # None => now - failed[x] >= CardTTL]_unfurlVars
  BY <1>1
<1>. QED BY <1>2, UnfurlInvariance, PTL DEF UnfurlSpec, RefusedBacksOff

====
