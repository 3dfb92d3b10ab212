----------------------------- MODULE SitesProofs -----------------------------
(***************************************************************************)
(* Proofs about Sites for any archives, slugs and numbers of requests.     *)
(* What an upload in flight stands for (Sound) is kept by its own steps,   *)
(* and by those of others because a page is only ever replaced by a page   *)
(* and because uploads that meet at a slug know it (Apart).                *)
(***************************************************************************)
EXTENDS Sites, FiniteSetTheorems, WellFoundedInduction, NaturalsInduction, TLAPS

PassedPage(z, p) == failOpen \/ <<z, p>> \notin Banned

\* What the checks before the store have found.
Checked(q) ==
    /\ q.step \in {"inspect", "pages", "manifest"} => Admitted(q.zip)
    /\ q.step = "head" => q.ifMatch = None
    /\ q.step = "match" => q.overwrite
    /\ q.step = "inspect" => \A p \in Pages(q.zip) \ q.left : PassedPage(q.zip, p)
    /\ q.step \in {"pages", "manifest"} => \A p \in Pages(q.zip) : PassedPage(q.zip, p)
    /\ q.step = "pages" => q.left \subseteq Pages(q.zip)

\* The pages q has put: none when it has not come to them.
Put(q) ==
    CASE q.step = "pages"    -> Pages(q.zip) \ q.left
      [] q.step = "manifest" -> Pages(q.zip)
      [] OTHER               -> {}

\* They are stored still, by q itself if it met nobody, and leave the slug torn.
Written(q) ==
    /\ \A p \in Put(q) : page[q.slug][p] # None
    /\ q.alone => \A p \in Put(q) : page[q.slug][p] = q.zip
    /\ Put(q) # {} => torn[q.slug]
    /\ q.step = "manifest" => torn[q.slug]

\* Until it meets another, q goes on only where it was asked to.
AsAsked(q) ==
    q.alone /\ q.step \in {"inspect", "pages", "manifest"} =>
        /\ q.ifMatch # None => VersionAt(q.slug) = q.ifMatch
        /\ ~q.overwrite /\ ~q.generated => manifest[q.slug] = None

Sound(q) == Checked(q) /\ Written(q) /\ AsAsked(q)

\* Two uploads at one slug have met.
Apart ==
    \A r, x \in Uploads :
        r # x /\ up[r] # None /\ up[x] # None /\ up[r].slug = up[x].slug => ~up[r].alone

Flights == Apart /\ \A r \in Uploads : up[r] # None => Sound(up[r])

\* What is left to a reader that has found nothing and may not say so yet.
Pending(q) ==
    q.found = "" /\ ~q.gone =>
        /\ q.asks # <<>>
        /\ q.asks = <<"site", "file">> => q.view /\ (file[q.slug] \/ manifest[q.slug] # None)
        /\ q.asks = <<"file">>         => q.view /\ file[q.slug]
        /\ q.asks = <<"file", "site">> => ~q.view /\ (file[q.slug] \/ manifest[q.slug] # None)
        /\ q.asks = <<"site">>         => ~q.view /\ manifest[q.slug] # None

Reading == \A d \in Readers : rd[d] # None => Pending(rd[d])

IInv ==
    /\ TypeOK
    /\ PromisedPagesStored
    /\ UntornSiteWhole
    /\ RejectedLeavesNoTrace
    /\ Flights
    /\ Reading

-----------------------------------------------------------------------------
(* The paths of pages.                                                     *)

\* A set of numbers with a member has a least one.
LEMMA Least ==
    ASSUME NEW S, S \subseteq Nat, S # {}
    PROVE  \E m \in S : \A k \in S : m <= k
<1> DEFINE Less == {p \in Nat \X Nat : p[1] < p[2]}
<1>1. IsWellFoundedOn(Less, Nat)
  BY NatLessThanWellFounded DEF OpToRel
<1>2. PICK m \in S : \A k \in S : ~(<<k, m>> \in Less)
  BY <1>1, WFMin
<1>3. \A k \in S : m <= k
  <2>. SUFFICES ASSUME NEW k \in S PROVE m <= k
    OBVIOUS
  <2>1. ~(k < m)
    BY <1>2
  <2>. QED BY <2>1
<1>. QED BY <1>3

\* Induction, over the numbers for which a fact holds.
LEMMA Induction ==
    ASSUME NEW S, 0 \in S, \A n \in Nat : n \in S => n + 1 \in S
    PROVE  Nat \subseteq S
<1>. SUFFICES ASSUME NEW x \in Nat, x \notin S PROVE FALSE
  OBVIOUS
<1> DEFINE Bad == {n \in Nat : n \notin S}
<1>1. PICK m \in Bad : \A k \in Bad : m <= k
  <2>1. Bad \subseteq Nat /\ Bad # {}
    OBVIOUS
  <2>. QED BY <2>1, Least
<1>2. m \in Nat /\ m \notin S /\ m # 0 /\ m - 1 \in Nat /\ m - 1 < m
  OBVIOUS
<1>3. m - 1 \in S
  BY <1>1, <1>2
<1>. QED BY <1>2, <1>3

\* The recursive function exists: it satisfies its own equation.
LEMMA CleanUpToFact ==
    ASSUME NEW name, Len(name) \in Nat
    PROVE  CleanUpTo(name) =
             [i \in 0..Len(name) |->
                IF i = 0 THEN <<>> ELSE Cleaned(CleanUpTo(name)[i-1], name[i])]
<1> DEFINE Body(f, m) == [i \in 0..m |-> IF i = 0 THEN <<>> ELSE Cleaned(f[i-1], name[i])]
           Good == {m \in Nat : \E f : f = Body(f, m)}
<1>1. 0 \in Good
  <2> DEFINE g == [i \in 0..0 |-> <<>>]
  <2>1. g = Body(g, 0)
    OBVIOUS
  <2>. QED BY <2>1
<1>2. ASSUME NEW m \in Nat, m \in Good PROVE m + 1 \in Good
  <2>1. PICK f : f = Body(f, m)
    BY <1>2
  <2> DEFINE g == [i \in 0..(m+1) |-> IF i \in 0..m THEN f[i] ELSE Cleaned(f[m], name[i])]
  <2>2. ASSUME NEW i \in 0..(m+1)
        PROVE  g[i] = IF i = 0 THEN <<>> ELSE Cleaned(g[i-1], name[i])
    <3>1. CASE i = m + 1
      <4>1. g[i] = Cleaned(f[m], name[i])
        BY <3>1
      <4>2. g[i-1] = f[m] /\ i # 0
        BY <3>1
      <4>. QED BY <4>1, <4>2
    <3>2. CASE i # m + 1
      <4>1. i \in 0..m /\ (i # 0 => i-1 \in 0..m) /\ i \in Nat
        BY <3>2
      <4>2. g[i] = f[i] /\ (i # 0 => g[i-1] = f[i-1])
        BY <4>1
      <4>3. f[i] = IF i = 0 THEN <<>> ELSE Cleaned(f[i-1], name[i])
        BY <4>1, <2>1
      <4>. QED BY <4>2, <4>3
    <3>. QED BY <3>1, <3>2
  <2>3. g = [i \in 0..(m+1) |-> g[i]]
    OBVIOUS
  <2>4. g = Body(g, m+1)
    <3>. HIDE DEF g
    <3>. QED BY <2>2, <2>3
  <2>5. \E e : e = Body(e, m+1)
    BY <2>4
  <2>6. m + 1 \in Nat
    OBVIOUS
  <2>. HIDE DEF Body, g
  <2>. QED BY <2>5, <2>6
<1>3. \E f : f = Body(f, Len(name))
  <2>1. Nat \subseteq Good
    <3>. HIDE DEF Good
    <3>. QED BY <1>1, <1>2, Induction
  <2>. QED BY <2>1
<1>. QED BY <1>3 DEF CleanUpTo

\* A path of parts that are none of "" and ".", where ".." stands only before any other.
Tidy(path) ==
    /\ \A i \in 1..Len(path) : path[i] \notin {"", "."}
    /\ \A i \in 2..Len(path) : path[i] = ".." => path[i-1] = ".."

\* One more part leaves a tidy path tidy.
LEMMA CleanedTidy ==
    ASSUME NEW T, NEW path \in Seq(T), Tidy(path), NEW part \in T
    PROVE  Cleaned(path, part) \in Seq(T) /\ Tidy(Cleaned(path, part))
<1>0. Len(path) \in Nat
  OBVIOUS
<1>1. CASE part \in {"", "."}
  BY <1>1 DEF Cleaned
<1>2. CASE part \notin {"", "."} /\ part = ".." /\ path # <<>> /\ path[Len(path)] # ".."
  <2>1. PICK n : n = Len(path) - 1
    OBVIOUS
  <2>2. n \in Nat /\ n + 1 = Len(path) /\ n \in 0..Len(path)
    BY <1>0, <1>2, <2>1
  <2>3. PICK o : o = SubSeq(path, 1, n)
    OBVIOUS
  <2>4. o \in Seq(T)
    BY <2>2, <2>3
  <2>5. Len(o) = n
    BY <2>2, <2>3
  <2>6. \A i \in 1..n : o[i] = path[i]
    BY <2>2, <2>3
  <2>7. Tidy(o)
    <3>1. ASSUME NEW i \in 1..Len(o) PROVE o[i] \notin {"", "."}
      <4>1. i \in 1..n /\ i \in 1..Len(path)
        BY <2>2, <2>5
      <4>2. path[i] \notin {"", "."}
        BY <4>1 DEF Tidy
      <4>. QED BY <2>6, <4>1, <4>2
    <3>2. ASSUME NEW i \in 2..Len(o), o[i] = ".." PROVE o[i-1] = ".."
      <4>1. i \in 2..Len(path) /\ i \in 1..n /\ i - 1 \in 1..n
        BY <2>2, <2>5
      <4>2. path[i] = ".."
        BY <2>6, <3>2, <4>1
      <4>3. path[i-1] = ".."
        BY <4>1, <4>2 DEF Tidy
      <4>. QED BY <2>6, <4>1, <4>3
    <3>. QED BY <3>1, <3>2 DEF Tidy
  <2>8. Cleaned(path, part) = o
    BY <1>2, <2>1, <2>3 DEF Cleaned
  <2>. QED BY <2>4, <2>7, <2>8
<1>3. CASE part \notin {"", "."} /\ ~(part = ".." /\ path # <<>> /\ path[Len(path)] # "..")
  <2>1. PICK o : o = Append(path, part)
    OBVIOUS
  <2>2. /\ o \in Seq(T) /\ Len(o) = Len(path) + 1 /\ o[Len(path) + 1] = part
        /\ \A i \in 1..Len(path) : o[i] = path[i]
    BY <1>0, <2>1
  <2>3. ASSUME NEW i \in 1..Len(o) PROVE o[i] \notin {"", "."}
    <3>1. CASE i = Len(path) + 1
      BY <1>3, <2>2, <3>1
    <3>2. CASE i # Len(path) + 1
      <4>1. i \in 1..Len(path)
        BY <1>0, <2>2, <3>2
      <4>2. path[i] \notin {"", "."}
        BY <4>1 DEF Tidy
      <4>. QED BY <2>2, <4>1, <4>2
    <3>. QED BY <3>1, <3>2
  <2>4. ASSUME NEW i \in 2..Len(o), o[i] = ".." PROVE o[i-1] = ".."
    <3>1. CASE i = Len(path) + 1
      <4>1. path # <<>> /\ part = ".."
        BY <1>0, <2>2, <2>4, <3>1
      <4>2. path[Len(path)] = ".."
        BY <1>3, <4>1
      <4>3. i - 1 = Len(path) /\ i - 1 \in 1..Len(path)
        BY <1>0, <3>1
      <4>. QED BY <2>2, <4>2, <4>3
    <3>2. CASE i # Len(path) + 1
      <4>1. i \in 2..Len(path) /\ i \in 1..Len(path) /\ i - 1 \in 1..Len(path)
        BY <1>0, <2>2, <3>2
      <4>. QED BY <2>2, <2>4, <4>1 DEF Tidy
    <3>. QED BY <3>1, <3>2
  <2>5. Tidy(o)
    BY <2>2, <2>3, <2>4 DEF Tidy
  <2>. QED BY <1>3, <2>1, <2>2, <2>5 DEF Cleaned
<1>. QED BY <1>1, <1>2, <1>3

\* Cleaning any name gives a tidy path.
LEMMA CleanTidy ==
    ASSUME NEW T, NEW name \in Seq(T)
    PROVE  Clean(name) \in Seq(T) /\ Tidy(Clean(name))
<1>. DEFINE f == CleanUpTo(name)
            Good == {m \in Nat : m <= Len(name) => f[m] \in Seq(T) /\ Tidy(f[m])}
<1>0. Len(name) \in Nat /\ \A i \in 1..Len(name) : name[i] \in T
  OBVIOUS
<1>1. f = [i \in 0..Len(name) |-> IF i = 0 THEN <<>> ELSE Cleaned(f[i-1], name[i])]
  BY <1>0, CleanUpToFact
<1>2. 0 \in Good
  <2>1. f[0] = <<>>
    <3>1. 0 \in 0..Len(name)
      BY <1>0
    <3>. HIDE DEF f
    <3>. QED BY <1>1, <3>1
  <2>2. <<>> \in Seq(T) /\ Tidy(<<>>)
    BY DEF Tidy
  <2>. QED BY <2>1, <2>2
<1>3. ASSUME NEW m \in Nat, m \in Good PROVE m + 1 \in Good
  <2>. SUFFICES ASSUME m + 1 <= Len(name) PROVE f[m+1] \in Seq(T) /\ Tidy(f[m+1])
    OBVIOUS
  <2>1. f[m] \in Seq(T) /\ Tidy(f[m]) /\ m + 1 \in 1..Len(name) /\ m + 1 \in 0..Len(name) /\ m + 1 # 0
    BY <1>0, <1>3
  <2>2. f[m+1] = Cleaned(f[m], name[m+1])
    <3>1. (m + 1) - 1 = m
      OBVIOUS
    <3>. HIDE DEF f
    <3>. QED BY <1>1, <2>1, <3>1
  <2>. HIDE DEF f
  <2>. QED BY <1>0, <2>1, <2>2, CleanedTidy
<1>4. Nat \subseteq Good
  <2>. HIDE DEF Good
  <2>. QED BY <1>2, <1>3, Induction
<1>. QED BY <1>0, <1>4 DEF Clean

\* A path that can be asked for: handleSiteAsset's cleaning leaves it as it is.
Askable(path) == path # <<>> /\ \A i \in 1..Len(path) : path[i] \notin {"", ".", ".."}

\* A tidy path that does not begin with ".." has it nowhere.
LEMMA TidyAskable ==
    ASSUME NEW T, NEW path \in Seq(T), Tidy(path), path # <<>>, Head(path) # ".."
    PROVE  Askable(path)
<1> DEFINE Up == {i \in 1..Len(path) : path[i] = ".."}
<1>0. Len(path) \in Nat /\ path[1] # ".."
  OBVIOUS
<1>1. Up = {}
  <2>. SUFFICES ASSUME Up # {} PROVE FALSE
    OBVIOUS
  <2>1. Up \subseteq Nat
    BY <1>0
  <2>2. PICK m \in Up : \A k \in Up : m <= k
    <3>. HIDE DEF Up
    <3>. QED BY <2>1, Least
  <2>3. m \in 2..Len(path) /\ path[m] = ".." /\ m - 1 \in 1..Len(path)
    BY <1>0, <2>2
  <2>4. path[m-1] = ".."
    BY <2>3 DEF Tidy
  <2>5. m - 1 \in Up
    BY <2>3, <2>4
  <2>. QED BY <1>0, <2>2, <2>3, <2>5
<1>. QED BY <1>1 DEF Askable, Tidy

\* Cleaning such a path again changes nothing.
LEMMA AskableClean ==
    ASSUME NEW T, NEW path \in Seq(T), Askable(path)
    PROVE  Clean(path) = path
<1>. DEFINE f == CleanUpTo(path)
            Good == {m \in Nat : m <= Len(path) =>
                       /\ f[m] \in Seq(T)
                       /\ Len(f[m]) = m
                       /\ \A i \in 1..m : f[m][i] = path[i]}
<1>0. Len(path) \in Nat /\ \A i \in 1..Len(path) : path[i] \in T
  OBVIOUS
<1>1. f = [i \in 0..Len(path) |-> IF i = 0 THEN <<>> ELSE Cleaned(f[i-1], path[i])]
  BY <1>0, CleanUpToFact
<1>2. 0 \in Good
  <2>1. f[0] = <<>>
    <3>1. 0 \in 0..Len(path)
      BY <1>0
    <3>. HIDE DEF f
    <3>. QED BY <1>1, <3>1
  <2>2. <<>> \in Seq(T) /\ Len(<<>>) = 0 /\ 1..0 = {}
    OBVIOUS
  <2>. HIDE DEF f
  <2>. QED BY <2>1, <2>2
<1>3. ASSUME NEW m \in Nat, m \in Good PROVE m + 1 \in Good
  <2>. SUFFICES ASSUME m + 1 <= Len(path)
                PROVE  /\ f[m+1] \in Seq(T)
                       /\ Len(f[m+1]) = m + 1
                       /\ \A i \in 1..(m+1) : f[m+1][i] = path[i]
    OBVIOUS
  <2>1. /\ f[m] \in Seq(T) /\ Len(f[m]) = m /\ \A i \in 1..m : f[m][i] = path[i]
        /\ m + 1 \in 1..Len(path) /\ m + 1 \in 0..Len(path) /\ m + 1 # 0
    BY <1>0, <1>3
  <2>2. f[m+1] = Cleaned(f[m], path[m+1])
    <3>1. (m + 1) - 1 = m
      OBVIOUS
    <3>. HIDE DEF f
    <3>. QED BY <1>1, <2>1, <3>1
  <2>. PICK g : g = f[m]
    OBVIOUS
  <2>3. path[m+1] \notin {"", ".", ".."} /\ path[m+1] \in T
    BY <1>0, <2>1 DEF Askable
  <2>4. f[m+1] = Append(g, path[m+1])
    <3>. HIDE DEF f
    <3>. QED BY <2>2, <2>3 DEF Cleaned
  <2>. PICK h : h = Append(g, path[m+1])
    OBVIOUS
  <2>5. /\ h \in Seq(T) /\ Len(h) = m + 1 /\ h[m+1] = path[m+1]
        /\ \A i \in 1..m : h[i] = g[i]
    <3>. HIDE DEF f
    <3>1. g \in Seq(T) /\ Len(g) = m
      BY <2>1
    <3>2. PICK e : e = path[m+1]
      OBVIOUS
    <3>3. h = Append(g, e) /\ e \in T
      BY <2>3, <3>2
    <3>. QED BY <3>1, <3>2, <3>3
  <2>6. ASSUME NEW i \in 1..(m+1) PROVE h[i] = path[i]
    <3>1. CASE i = m + 1
      BY <2>5, <3>1
    <3>2. CASE i # m + 1
      BY <2>1, <2>5, <3>2
    <3>. QED BY <3>1, <3>2
  <2>. HIDE DEF f
  <2>. QED BY <2>4, <2>5, <2>6
<1>4. Nat \subseteq Good
  <2>. HIDE DEF Good
  <2>. QED BY <1>2, <1>3, Induction
<1>5. PICK g : g = f[Len(path)]
  OBVIOUS
<1>6. g \in Seq(T) /\ Len(g) = Len(path) /\ \A i \in 1..Len(path) : g[i] = path[i]
  BY <1>0, <1>4, <1>5
<1>7. g = path
  BY <1>6
<1>. QED BY <1>5, <1>7 DEF Clean

\* The pages of an archive whose names are all safe are looked for at their paths.
LEMMA PagesAskable ==
    ASSUME NEW z \in Zips, Admitted(z), NEW p \in Pages(z)
    PROVE  p = RawPage \/ AsksFor(p, p)
<1>. PICK T : T = STRING \ Forbidden
  OBVIOUS
<1>. PICK prefix : prefix = StripPrefix(Names(z))
  OBVIOUS
<1>1. PICK n \in Files(Names(z)) : p = StoredPath(n, prefix)
  BY DEF Pages, PathsOf
<1>2. n \in Seq(T) /\ n # <<>>
  <2>1. n \in Seq(STRING) /\ n # <<>>
    BY SitesAssumption DEF Files
  <2>2. \A i \in 1..Len(n) : n[i] \notin Forbidden
    BY <1>1 DEF Admitted, AllSafe, SafeName
  <2>. PICK S : S = STRING
    OBVIOUS
  <2>3. n \in Seq(S) /\ T = S \ Forbidden
    BY <2>1
  <2>. QED BY <2>1, <2>2, <2>3
<1>3. Trim(n, prefix) \in Seq(T)
  <2>1. Tail(n) \in Seq(T)
    BY <1>2
  <2>. QED BY <1>2, <2>1 DEF Trim
<1>4. p # <<>> /\ Head(p) # ".."
  BY <1>1 DEF Admitted, AllSafe, SafeName, StoredPath
<1>5. p \in Seq(T) /\ Tidy(p)
  BY <1>1, <1>3, CleanTidy DEF StoredPath
<1>6. Askable(p)
  BY <1>4, <1>5, TidyAskable
<1>7. Clean(p) = p
  BY <1>5, <1>6, AskableClean
<1>8. Trim(p, <<>>) = p
  BY DEF Trim
<1>9. Len(p) \in Nat /\ Head(p) = p[1] /\ 1 \in 1..Len(p) /\ \A i \in 1..Len(p) : p[i] \in T
  BY <1>4, <1>5
<1>10. SafeName(p, <<>>)
  BY <1>4, <1>6, <1>7, <1>8, <1>9 DEF SafeName, Askable
<1>. QED BY <1>7, <1>10 DEF AsksFor

-----------------------------------------------------------------------------
(* Lemmas.                                                                 *)

LEMMA NoneFact ==
    /\ None \notin Zips /\ None \notin Upload /\ None \notin Manifest /\ None \notin Reader
BY SitesAssumption, SiteRequestAssumption

LEMMA PagesFact ==
    ASSUME NEW z \in Zips
    PROVE  Pages(z) \subseteq Paths /\ Cardinality(Files(Names(z))) \in Nat
<1>1. IsFiniteSet(Files(Names(z)))
  BY SitesAssumption, FS_Subset DEF Files
<1>. QED BY <1>1, FS_CardinalityType DEF Paths

\* An upload that has met another is sound if it was.
LEMMA SoundWhenMet ==
    ASSUME NEW q \in Upload, Sound(q), NEW b \in BOOLEAN, b => q.alone
    PROVE  Sound([q EXCEPT !.alone = b])
<1>1. PICK o : o = [q EXCEPT !.alone = b]
  OBVIOUS
<1>2. /\ o.step = q.step /\ o.slug = q.slug /\ o.zip = q.zip /\ o.ifMatch = q.ifMatch
      /\ o.overwrite = q.overwrite /\ o.generated = q.generated /\ o.left = q.left
      /\ o.alone = b
  BY <1>1 DEF Upload
<1>3. Put(o) = Put(q)
  BY <1>2 DEF Put
<1>4. Checked(o) /\ Written(o) /\ AsAsked(o)
  BY <1>2, <1>3 DEF Sound, Checked, Written, AsAsked
<1>. QED BY <1>1, <1>4 DEF Sound

\* What Sound speaks of.
seen == <<failOpen, page, manifest, torn>>

LEMMA SoundStays ==
    ASSUME NEW q, Sound(q), UNCHANGED seen
    PROVE  Sound(q)'
BY DEF seen, Sound, Checked, Written, AsAsked, PassedPage, Put, VersionAt

\* One upload goes on as q, at whatever slug, and meets who is there.
LEMMA MeetsFact ==
    ASSUME up \in [Uploads -> Upload \cup {None}], Flights, NEW r \in Uploads,
           NEW q \in Upload, Sound(q), Meets(r, q), UNCHANGED seen
    PROVE  up' \in [Uploads -> Upload \cup {None}] /\ Flights'
<1>. DEFINE others == {x \in Uploads \ {r} : AtSlug(x, q.slug)}
            mine   == [q EXCEPT !.alone = @ /\ others = {}]
<1>1. up' = [x \in Uploads |-> IF x = r THEN mine
                              ELSE IF x \in others THEN [up[x] EXCEPT !.alone = FALSE]
                              ELSE up[x]]
  BY DEF Meets
<1>2. mine \in Upload /\ mine.slug = q.slug /\ (mine.alone => others = {})
      /\ mine = [q EXCEPT !.alone = q.alone /\ others = {}]
      /\ (q.alone /\ others = {}) \in BOOLEAN
  BY DEF Upload
<1>3. Sound(mine)
  BY <1>2, SoundWhenMet
<1>4. ASSUME NEW x \in others
      PROVE  /\ up[x] \in Upload /\ up[x].slug = q.slug
             /\ [up[x] EXCEPT !.alone = FALSE] \in Upload
             /\ [up[x] EXCEPT !.alone = FALSE].slug = q.slug
             /\ ~[up[x] EXCEPT !.alone = FALSE].alone
             /\ Sound([up[x] EXCEPT !.alone = FALSE])
  <2>1. up[x] \in Upload /\ up[x].slug = q.slug /\ Sound(up[x])
    BY <1>4 DEF AtSlug, Flights
  <2>2. Sound([up[x] EXCEPT !.alone = FALSE])
    BY <2>1, SoundWhenMet
  <2>. QED BY <2>1, <2>2 DEF Upload
<1>5. up' \in [Uploads -> Upload \cup {None}]
  BY <1>1, <1>2, <1>4
<1>6. ASSUME NEW x \in Uploads, up'[x] # None PROVE Sound(up[x])'
  <2>1. PICK y : y = up'[x]
    OBVIOUS
  <2>2. Sound(y)
    BY <1>1, <1>3, <1>4, <1>6, <2>1 DEF Flights
  <2>3. Sound(y)'
    BY <2>2, SoundStays
  <2>. QED BY <2>1, <2>3
<1>7. Apart'
  <2>. SUFFICES ASSUME NEW x \in Uploads, NEW y \in Uploads, x # y,
                       up'[x] # None, up'[y] # None, up'[x].slug = up'[y].slug
                PROVE  ~up'[x].alone
    BY DEF Apart
  <2>1. CASE x = r
    <3>1. y \in Uploads \ {r} /\ up[y] # None /\ up[y].slug = q.slug
      BY <1>1, <1>2, <1>4, <2>1, NoneFact DEF AtSlug
    <3>2. y \in others
      BY <3>1 DEF AtSlug
    <3>. QED BY <1>1, <1>2, <2>1, <3>2
  <2>2. CASE x # r /\ x \in others
    BY <1>1, <1>4, <2>2
  <2>3. CASE x # r /\ x \notin others
    <3>1. up'[x] = up[x] /\ up[x].slug # q.slug
      BY <1>1, <2>3 DEF AtSlug
    <3>2. y # r /\ y \notin others
      BY <1>1, <1>2, <1>4, <3>1
    <3>3. up'[y] = up[y]
      BY <1>1, <3>2
    <3>. QED BY <3>1, <3>3 DEF Flights, Apart
  <2>. QED BY <2>1, <2>2, <2>3
<1>. QED BY <1>5, <1>6, <1>7 DEF Flights

\* One upload goes on as q at its slug, or ends.
LEMMA GoesFact ==
    ASSUME up \in [Uploads -> Upload \cup {None}], Flights, NEW r \in Uploads, up[r] # None,
           NEW q \in Upload, Sound(q), q.slug = up[r].slug, q.alone = up[r].alone,
           up' = [up EXCEPT ![r] = q], UNCHANGED seen
    PROVE  up' \in [Uploads -> Upload \cup {None}] /\ Flights'
<1>1. ASSUME NEW x \in Uploads, up'[x] # None PROVE Sound(up[x])'
  <2>1. PICK y : y = up'[x]
    OBVIOUS
  <2>2. Sound(y)
    BY <1>1, <2>1 DEF Flights
  <2>3. Sound(y)'
    BY <2>2, SoundStays
  <2>. QED BY <2>1, <2>3
<1>2. Apart'
  BY NoneFact DEF Flights, Apart
<1>. QED BY <1>1, <1>2 DEF Flights

LEMMA EndsFact ==
    ASSUME up \in [Uploads -> Upload \cup {None}], Flights, NEW r \in Uploads, End(r),
           UNCHANGED seen
    PROVE  up' \in [Uploads -> Upload \cup {None}] /\ Flights'
<1>1. ASSUME NEW x \in Uploads, up'[x] # None PROVE Sound(up[x])'
  <2>1. PICK y : y = up'[x]
    OBVIOUS
  <2>2. Sound(y)
    BY <1>1, <2>1 DEF Flights, End
  <2>3. Sound(y)'
    BY <2>2, SoundStays
  <2>. QED BY <2>1, <2>3
<1>2. Apart'
  BY DEF Flights, Apart, End
<1>. QED BY <1>1, <1>2 DEF Flights, End

\* The archive of q is checked as a whole, at a slug where q may go on.
LEMMA ProceedsFact ==
    ASSUME up \in [Uploads -> Upload \cup {None}], Flights, NEW r \in Uploads,
           NEW q \in Upload, Proceeds(r, q), UNCHANGED seen,
           q.ifMatch # None => VersionAt(q.slug) = q.ifMatch,
           ~q.overwrite /\ ~q.generated => manifest[q.slug] = None
    PROVE  up' \in [Uploads -> Upload \cup {None}] /\ Flights'
<1>1. CASE ~Admitted(q.zip)
  BY <1>1, EndsFact DEF Proceeds
<1>2. CASE Admitted(q.zip)
  <2>1. PICK o : o = Inspecting(q)
    OBVIOUS
  <2>2. /\ o \in Upload
        /\ o.step = "inspect" /\ o.left = Pages(q.zip) /\ o.slug = q.slug /\ o.zip = q.zip
        /\ o.ifMatch = q.ifMatch /\ o.overwrite = q.overwrite /\ o.generated = q.generated
    BY <2>1, PagesFact DEF Inspecting, Upload
  <2>3. Put(o) = {}
    BY <2>2 DEF Put
  <2>4. Sound(o)
    BY <1>2, <2>2, <2>3 DEF Sound, Checked, Written, AsAsked
  <2>5. Meets(r, o)
    BY <1>2, <2>1 DEF Proceeds
  <2>. QED BY <2>2, <2>4, <2>5, MeetsFact
<1>. QED BY <1>1, <1>2

\* A request that has not been checked yet is sound.
LEMMA FreshFact ==
    ASSUME NEW q \in Upload, q.step \in {"match", "head"},
           q.step = "head" => q.ifMatch = None, q.step = "match" => q.overwrite
    PROVE  Sound(q)
<1>1. Put(q) = {}
  BY DEF Put
<1>. QED BY <1>1 DEF Sound, Checked, Written, AsAsked

\* Actions that change no more than the uploads in flight.
store == <<failOpen, page, manifest, file, rd, torn>>

LEMMA UpOnlyFact ==
    ASSUME IInv, UNCHANGED store, up' \in [Uploads -> Upload \cup {None}], Flights'
    PROVE  IInv'
<1>1. TypeOK'
  BY DEF IInv, TypeOK, store
<1>2. PromisedPagesStored' /\ UntornSiteWhole' /\ RejectedLeavesNoTrace'
  BY DEF IInv, store, PromisedPagesStored, UntornSiteWhole, RejectedLeavesNoTrace, VersionAt
<1>3. Reading'
  BY DEF IInv, store, Reading, Pending
<1>. QED BY <1>1, <1>2, <1>3 DEF IInv

LEMMA StartFact ==
    ASSUME IInv, NEW r \in Uploads, Start(r)
    PROVE  IInv'
<1>. PICK s \in Slugs, z \in Zips :
        \/ \E generated \in BOOLEAN : StartCreate(r, s, z, generated)
        \/ StartOverwrite(r, s, z)
        \/ \E v \in Zips : StartMatch(r, s, z, v)
  BY DEF Start
<1>0. up \in [Uploads -> Upload \cup {None}] /\ Flights
  BY DEF IInv, TypeOK
<1>1. ASSUME NEW generated \in BOOLEAN, StartCreate(r, s, z, generated) PROVE IInv'
  <2>1. PICK q : q = Request("head", s, z, None, FALSE, generated)
    OBVIOUS
  <2>2. q \in Upload /\ q.step = "head" /\ q.ifMatch = None
    BY <2>1 DEF Request, Upload
  <2>3. Meets(r, q) /\ UNCHANGED store /\ UNCHANGED seen
    BY <1>1, <2>1 DEF StartCreate, store, seen
  <2>. QED BY <1>0, <2>2, <2>3, FreshFact, MeetsFact, UpOnlyFact
<1>2. CASE StartOverwrite(r, s, z)
  <2>1. PICK q : q = Request("head", s, z, None, TRUE, FALSE)
    OBVIOUS
  <2>2. q \in Upload /\ q.ifMatch = None /\ q.overwrite /\ q.zip = z
    BY <2>1 DEF Request, Upload
  <2>3. Proceeds(r, q) /\ UNCHANGED store /\ UNCHANGED seen
    BY <1>2, <2>1, <2>2 DEF StartOverwrite, Proceeds, store, seen
  <2>. QED BY <1>0, <2>2, <2>3, ProceedsFact, UpOnlyFact
<1>3. ASSUME NEW v \in Zips, StartMatch(r, s, z, v) PROVE IInv'
  <2>1. PICK q : q = Request("match", s, z, v, TRUE, FALSE)
    OBVIOUS
  <2>2. q \in Upload /\ q.step = "match" /\ q.overwrite
    BY <2>1 DEF Request, Upload
  <2>3. Meets(r, q) /\ UNCHANGED store /\ UNCHANGED seen
    BY <1>3, <2>1 DEF StartMatch, store, seen
  <2>. QED BY <1>0, <2>2, <2>3, FreshFact, MeetsFact, UpOnlyFact
<1>. QED BY <1>1, <1>2, <1>3

\* The steps of an upload up to its first put.
LEMMA CheckFact ==
    ASSUME IInv, NEW r \in Uploads,
           \/ Match(r) \/ HeadSite(r) \/ Fails(r)
           \/ \E p \in Paths : Inspect(r, p) \/ InspectFails(r, p)
    PROVE  IInv'
<1>1. UNCHANGED store /\ UNCHANGED seen
  BY DEF Match, HeadSite, Fails, Inspect, InspectFails, store, seen
<1>2. up \in [Uploads -> Upload \cup {None}] /\ Flights
  BY DEF IInv, TypeOK
<1>. PICK q : q = up[r]
  OBVIOUS
<1>3. q \in Upload /\ Sound(q) /\ q # None
  BY <1>2 DEF Match, HeadSite, Fails, Inspect, InspectFails, At, Flights
<1>4. CASE End(r)
  BY <1>1, <1>2, <1>4, EndsFact, UpOnlyFact
<1>5. CASE Match(r) /\ ~End(r)
  <2>1. q.step = "match" /\ q.overwrite /\ VersionAt(q.slug) = q.ifMatch /\ Proceeds(r, q)
    BY <1>3, <1>5 DEF Match, At, Sound, Checked
  <2>. QED BY <1>1, <1>2, <1>3, <2>1, ProceedsFact, UpOnlyFact
<1>6. CASE HeadSite(r) /\ ~End(r)
  <2>1. q.step = "head" /\ q.ifMatch = None
    BY <1>3, <1>6 DEF HeadSite, At, Sound, Checked
  <2>2. CASE manifest[q.slug] = None
    <3>1. Proceeds(r, q)
      BY <1>6, <2>2 DEF HeadSite
    <3>. QED BY <1>1, <1>2, <1>3, <2>1, <2>2, <3>1, ProceedsFact, UpOnlyFact
  <2>3. CASE manifest[q.slug] # None
    <3>1. PICK s \in Slugs : q.generated /\ Proceeds(r, [q EXCEPT !.slug = s])
      BY <1>6, <2>3 DEF HeadSite
    <3>2. PICK o : o = [q EXCEPT !.slug = s]
      OBVIOUS
    <3>3. o \in Upload /\ o.ifMatch = None /\ o.generated
      BY <1>3, <2>1, <3>1, <3>2 DEF Upload
    <3>. QED BY <1>1, <1>2, <3>1, <3>2, <3>3, ProceedsFact, UpOnlyFact
  <2>. QED BY <2>2, <2>3
<1>7. ASSUME NEW p \in Paths, q.step = "inspect", p \in q.left, PassedPage(q.zip, p), Passed(r, p)
      PROVE  IInv'
  <2>. DEFINE left == q.left \ {p}
  <2>1. PICK o : o = IF left = {} THEN [q EXCEPT !.step = "pages", !.left = Pages(q.zip)]
                                  ELSE [q EXCEPT !.left = left]
    OBVIOUS
  <2>2. up' = [up EXCEPT ![r] = o]
    BY <1>7, <2>1 DEF Passed
  <2>3. q.zip \in Zips /\ Pages(q.zip) \subseteq Paths /\ left \in SUBSET Paths
    BY <1>3, PagesFact DEF Upload
  <2>4. /\ o \in Upload /\ o.slug = q.slug /\ o.zip = q.zip /\ o.alone = q.alone
        /\ o.ifMatch = q.ifMatch /\ o.overwrite = q.overwrite /\ o.generated = q.generated
        /\ \/ left = {} /\ o.step = "pages" /\ o.left = Pages(q.zip)
           \/ o.step = "inspect" /\ o.left = left
    BY <1>3, <1>7, <2>1, <2>3 DEF Upload
  <2>5. Put(o) = {}
    BY <2>4 DEF Put
  <2>6. /\ Admitted(q.zip)
        /\ \A x \in Pages(q.zip) \ left : PassedPage(q.zip, x)
    BY <1>3, <1>7 DEF Sound, Checked
  <2>7. Checked(o) /\ AsAsked(o)
    BY <1>3, <1>7, <2>4, <2>6 DEF Sound, Checked, AsAsked
  <2>8. Sound(o)
    BY <2>4, <2>5, <2>7 DEF Sound, Written
  <2>. QED BY <1>1, <1>2, <1>3, <2>2, <2>4, <2>8, GoesFact, UpOnlyFact
<1>8. ASSUME NEW p \in Paths, Inspect(r, p) \/ InspectFails(r, p), ~End(r)
      PROVE  IInv'
  <2>1. q.step = "inspect" /\ p \in q.left /\ PassedPage(q.zip, p) /\ Passed(r, p)
    BY <1>8 DEF Inspect, InspectFails, At, PassedPage
  <2>. QED BY <1>7, <2>1
<1>9. CASE Fails(r)
  BY <1>4, <1>9 DEF Fails
<1>. QED BY <1>4, <1>5, <1>6, <1>8, <1>9

\* A page is put, by upload r.
LEMMA StoresFact ==
    ASSUME IInv, NEW r \in Uploads, At(r, "pages"), NEW p \in up[r].left, Stored(r, p),
           UNCHANGED <<failOpen, manifest>>
    PROVE  /\ page' \in [Slugs -> [Paths -> Zips \cup {None}]]
           /\ torn' \in [Slugs -> BOOLEAN]
           /\ \A s \in Slugs, x \in Paths : page[s][x] # None => page'[s][x] # None
           /\ page'[up[r].slug][p] = up[r].zip
           /\ \A x \in Paths : x # p => page'[up[r].slug][x] = page[up[r].slug][x]
           /\ \A s \in Slugs : s # up[r].slug => page'[s] = page[s] /\ torn'[s] = torn[s]
           /\ torn'[up[r].slug]
           /\ PromisedPagesStored' /\ UntornSiteWhole' /\ RejectedLeavesNoTrace'
<1>. PICK q : q = up[r]
  OBVIOUS
<1>1. /\ q \in Upload /\ Sound(q) /\ q # None /\ q.step = "pages"
      /\ q.slug \in Slugs /\ q.zip \in Zips /\ p \in Paths /\ q.zip # None
  BY NoneFact DEF IInv, TypeOK, Flights, At, Upload
<1>2. /\ page \in [Slugs -> [Paths -> Zips \cup {None}]] /\ torn \in [Slugs -> BOOLEAN]
      /\ manifest \in [Slugs -> Manifest \cup {None}]
  BY DEF IInv, TypeOK
<1>3. /\ page' = [page EXCEPT ![q.slug] = [page[q.slug] EXCEPT ![p] = q.zip]]
      /\ torn' = [torn EXCEPT ![q.slug] = TRUE]
  BY DEF Stored
<1>4. /\ page' \in [Slugs -> [Paths -> Zips \cup {None}]]
      /\ torn' \in [Slugs -> BOOLEAN]
      /\ \A s \in Slugs, x \in Paths : page[s][x] # None => page'[s][x] # None
      /\ page'[q.slug][p] = q.zip
      /\ \A x \in Paths : x # p => page'[q.slug][x] = page[q.slug][x]
      /\ \A s \in Slugs : s # q.slug => page'[s] = page[s] /\ torn'[s] = torn[s]
      /\ torn'[q.slug]
  BY <1>1, <1>2, <1>3
<1>5. \A s \in Slugs : manifest[s] # None => VersionAt(s) \in Zips
  BY <1>2 DEF VersionAt, Manifest
<1>6. PromisedPagesStored'
  BY <1>4, <1>5, PagesFact DEF IInv, PromisedPagesStored, VersionAt
<1>7. UntornSiteWhole'
  BY <1>4 DEF IInv, UntornSiteWhole, VersionAt
<1>8. RejectedLeavesNoTrace'
  <2>1. Admitted(q.zip) /\ \A x \in Pages(q.zip) : PassedPage(q.zip, x)
    BY <1>1 DEF Sound, Checked
  <2>. SUFFICES ASSUME NEW s \in Slugs, NEW x \in Paths, NEW z, z = page'[s][x], z # None
                PROVE  /\ failOpen \/ \A y \in Pages(z) : <<z, y>> \notin Banned
                       /\ Cardinality(Files(Names(z))) <= MaxFiles
    BY DEF RejectedLeavesNoTrace
  <2>2. CASE s = q.slug /\ x = p
    BY <1>4, <2>1, <2>2 DEF Admitted, PassedPage
  <2>3. CASE ~(s = q.slug /\ x = p)
    BY <1>4, <2>3 DEF IInv, RejectedLeavesNoTrace
  <2>. QED BY <2>2, <2>3
<1>. QED BY <1>4, <1>6, <1>7, <1>8

\* The other uploads stay sound: at another slug nothing changes for them, at this one
\* they have met r.
LEMMA OthersSound ==
    ASSUME IInv, NEW r \in Uploads, At(r, "pages"), NEW p \in up[r].left, Stored(r, p),
           UNCHANGED <<failOpen, manifest>>,
           NEW x \in Uploads, x # r, NEW y \in Upload, y = up[x]
    PROVE  Sound(y)'
<1>1. up[r] \in Upload /\ up[r] # None /\ y # None
  BY NoneFact DEF IInv, TypeOK, At
<1>2. Sound(y) /\ (y.slug = up[r].slug => ~y.alone)
  BY <1>1 DEF IInv, Flights, Apart
<1>3. y.zip \in Zips /\ y.slug \in Slugs /\ Put(y) \subseteq Paths
  BY PagesFact DEF Upload, Put
<1>4. Put(y)' = Put(y)
  BY DEF Put
<1>5. Checked(y)' /\ AsAsked(y)'
  BY <1>2 DEF Sound, Checked, AsAsked, PassedPage, VersionAt
<1>6. Written(y)'
  BY <1>2, <1>3, <1>4, StoresFact DEF Sound, Written
<1>. QED BY <1>5, <1>6 DEF Sound

\* Nothing is read of pages.
LEMMA ReadingStays ==
    ASSUME Reading, UNCHANGED <<manifest, file, rd>>
    PROVE  Reading'
BY DEF Reading, Pending

LEMMA PutFact ==
    ASSUME IInv, NEW r \in Uploads, NEW p \in Paths,
           PutSiteFile(r, p) \/ PutSiteFileFails(r, p)
    PROVE  IInv'
<1>. PICK q : q = up[r]
  OBVIOUS
<1>1. /\ q \in Upload /\ Sound(q) /\ q # None /\ At(r, "pages") /\ p \in q.left
      /\ q.step = "pages" /\ q.slug \in Slugs /\ q.zip \in Zips
      /\ UNCHANGED <<failOpen, manifest, file, rd>>
  BY DEF IInv, TypeOK, Flights, At, Upload, PutSiteFile, PutSiteFileFails
<1>2. up \in [Uploads -> Upload \cup {None}] /\ Flights
  BY DEF IInv, TypeOK
<1>3. CASE PutSiteFileFails(r, p) /\ UNCHANGED <<page, torn>>
  <2>1. End(r) /\ UNCHANGED store /\ UNCHANGED seen
    BY <1>1, <1>3 DEF PutSiteFileFails, store, seen
  <2>. QED BY <1>2, <2>1, EndsFact, UpOnlyFact
<1>4. ASSUME Stored(r, p), NEW o \in Upload \cup {None}, up' = [up EXCEPT ![r] = o],
             o # None => o.slug = q.slug /\ o.alone = q.alone /\ Sound(o)'
      PROVE  IInv'
  <2>1. TypeOK'
    BY <1>1, <1>2, <1>4, StoresFact DEF IInv, TypeOK
  <2>2. Reading'
    BY <1>1, ReadingStays DEF IInv
  <2>3. ASSUME NEW x \in Uploads, up'[x] # None PROVE Sound(up[x])'
    <3>1. PICK y : y = up'[x]
      OBVIOUS
    <3>2. CASE x = r
      BY <1>2, <1>4, <2>3, <3>1, <3>2
    <3>3. CASE x # r
      <4>1. y = up[x] /\ y \in Upload
        BY <1>2, <1>4, <2>3, <3>1, <3>3
      <4>2. Sound(y)'
        BY <1>1, <1>4, <3>3, <4>1, OthersSound
      <4>. QED BY <3>1, <4>2
    <3>. QED BY <3>2, <3>3
  <2>4. Apart'
    BY <1>1, <1>2, <1>4 DEF Flights, Apart
  <2>. QED BY <1>1, <1>4, <2>1, <2>2, <2>3, <2>4, StoresFact DEF IInv, Flights
<1>5. CASE PutSiteFileFails(r, p) /\ Stored(r, p)
  <2>1. up' = [up EXCEPT ![r] = None]
    BY <1>5 DEF PutSiteFileFails, End
  <2>. QED BY <1>4, <1>5, <2>1
<1>6. CASE PutSiteFile(r, p)
  <2>1. PICK o : o = [q EXCEPT !.left = q.left \ {p},
                               !.step = IF q.left = {p} THEN "manifest" ELSE "pages"]
    OBVIOUS
  <2>2. Stored(r, p) /\ up' = [up EXCEPT ![r] = o]
    BY <1>6, <2>1 DEF PutSiteFile
  <2>3. /\ o \in Upload /\ o.slug = q.slug /\ o.zip = q.zip /\ o.alone = q.alone
        /\ o.ifMatch = q.ifMatch /\ o.overwrite = q.overwrite /\ o.generated = q.generated
        /\ \/ q.left = {p} /\ o.step = "manifest"
           \/ o.step = "pages" /\ o.left = q.left \ {p}
    BY <1>1, <2>1 DEF Upload
  <2>4. /\ Put(q) = Pages(q.zip) \ q.left
        /\ Put(o) \subseteq Put(q) \cup {p}
    BY <1>1, <2>3 DEF Put
  <2>5. Put(o)' = Put(o) /\ Put(q) \subseteq Paths
    BY <1>1, <2>4, PagesFact DEF Put
  <2>6. Checked(o)' /\ AsAsked(o)'
    BY <1>1, <2>3 DEF Sound, Checked, AsAsked, PassedPage, VersionAt
  <2>7. /\ torn'[q.slug] /\ page'[q.slug][p] = q.zip
        /\ \A x \in Paths : x # p => page'[q.slug][x] = page[q.slug][x]
    BY <1>1, <2>2, StoresFact
  <2>8. Written(q) /\ q.zip # None
    BY <1>1, NoneFact DEF Sound
  <2>9. Written(o)'
    BY <2>3, <2>4, <2>5, <2>7, <2>8 DEF Written
  <2>10. Sound(o)'
    BY <2>6, <2>9 DEF Sound
  <2>. QED BY <1>4, <2>2, <2>3, <2>10
<1>. QED BY <1>3, <1>5, <1>6 DEF PutSiteFileFails

\* The manifest is put: the others at the slug have met r.
LEMMA ManifestFact ==
    ASSUME IInv, NEW r \in Uploads, PutSiteManifest(r)
    PROVE  IInv'
<1>. PICK q : q = up[r]
  OBVIOUS
<1>. PICK m : m = ManifestOf(q.zip)
  OBVIOUS
<1>1. /\ q \in Upload /\ Sound(q) /\ q # None /\ q.step = "manifest"
      /\ q.slug \in Slugs /\ q.zip \in Zips
      /\ UNCHANGED <<failOpen, page, file, rd>>
      /\ manifest' = [manifest EXCEPT ![q.slug] = m]
      /\ torn' = [torn EXCEPT ![q.slug] = torn[q.slug] /\ ~q.alone]
      /\ up' = [up EXCEPT ![r] = None]
  BY DEF IInv, TypeOK, Flights, At, Upload, PutSiteManifest, End
<1>2. /\ up \in [Uploads -> Upload \cup {None}] /\ Flights
      /\ manifest \in [Slugs -> Manifest \cup {None}] /\ torn \in [Slugs -> BOOLEAN]
  BY DEF IInv, TypeOK
<1>3. Admitted(q.zip) /\ Written(q) /\ Put(q) = Pages(q.zip)
  BY <1>1 DEF Sound, Checked, Put
<1>4. m \in Manifest /\ m # None /\ m.version = q.zip
  BY <1>1, <1>3, PagesFact, SitesAssumption, NoneFact DEF ManifestOf, Manifest, Admitted
<1>5. TypeOK'
  BY <1>1, <1>2, <1>4 DEF IInv, TypeOK
<1>6. PromisedPagesStored'
  BY <1>1, <1>2, <1>3, <1>4 DEF IInv, PromisedPagesStored, VersionAt, Written
<1>7. UntornSiteWhole'
  <2>. SUFFICES ASSUME NEW s \in Slugs, manifest'[s] # None, ~torn'[s]
                PROVE  \A p \in Pages(VersionAt(s)') : page[s][p] = VersionAt(s)'
    BY <1>1 DEF UntornSiteWhole
  <2>1. CASE s = q.slug
    <3>1. q.alone
      BY <1>1, <1>2, <1>3, <2>1 DEF Written
    <3>2. VersionAt(s)' = q.zip
      BY <1>1, <1>2, <1>4, <2>1 DEF VersionAt
    <3>. QED BY <1>3, <2>1, <3>1, <3>2 DEF Written
  <2>2. CASE s # q.slug
    <3>1. manifest'[s] = manifest[s] /\ torn'[s] = torn[s]
      BY <1>1, <1>2, <2>2
    <3>2. VersionAt(s)' = VersionAt(s)
      BY <3>1 DEF VersionAt
    <3>. QED BY <3>1, <3>2 DEF IInv, UntornSiteWhole
  <2>. QED BY <2>1, <2>2
<1>8. RejectedLeavesNoTrace'
  BY <1>1 DEF IInv, RejectedLeavesNoTrace
<1>9. ASSUME NEW x \in Uploads, up'[x] # None PROVE Sound(up[x])'
  <2>1. PICK y : y = up'[x]
    OBVIOUS
  <2>2. x # r /\ y = up[x] /\ y \in Upload /\ Sound(y) /\ y.slug \in Slugs
        /\ (y.slug = q.slug => ~y.alone)
        /\ (y.slug = q.slug => ~q.alone)
    BY <1>1, <1>2, <1>9, <2>1 DEF Flights, Apart, Upload
  <2>3. /\ y.slug = q.slug => torn'[y.slug] = torn[y.slug]
        /\ y.slug # q.slug => manifest'[y.slug] = manifest[y.slug]
                              /\ torn'[y.slug] = torn[y.slug]
    BY <1>1, <1>2, <2>2
  <2>4. Put(y)' = Put(y)
    BY DEF Put
  <2>5. Checked(y)' /\ Written(y)' /\ AsAsked(y)'
    BY <1>1, <2>2, <2>3, <2>4 DEF Sound, Checked, Written, AsAsked, PassedPage, VersionAt
  <2>. QED BY <2>1, <2>5 DEF Sound
<1>10. Apart'
  BY <1>1, <1>2 DEF Flights, Apart
<1>11. Reading'
  <2>1. \A s \in Slugs : manifest[s] # None => manifest'[s] # None
    BY <1>1, <1>2, <1>4
  <2>2. \A d \in Readers : rd[d] # None => rd[d].slug \in Slugs
    BY DEF IInv, TypeOK, Reader
  <2>. SUFFICES ASSUME NEW d \in Readers, rd[d] # None PROVE Pending(rd[d])'
    BY <1>1 DEF Reading
  <2>3. Pending(rd[d])
    BY DEF IInv, Reading
  <2>. QED BY <1>1, <2>1, <2>2, <2>3 DEF Pending
<1>. QED BY <1>5, <1>6, <1>7, <1>8, <1>9, <1>10, <1>11 DEF IInv, Flights

-----------------------------------------------------------------------------
(* The file and the readers.                                               *)

\* Actions that change neither pages, manifests nor uploads.
LEMMA SiteStays ==
    ASSUME IInv, UNCHANGED <<failOpen, page, manifest, up, torn>>
    PROVE  /\ PromisedPagesStored' /\ UntornSiteWhole' /\ RejectedLeavesNoTrace'
           /\ Flights'
<1>1. ASSUME NEW x \in Uploads, up'[x] # None PROVE Sound(up[x])'
  <2>1. PICK y : y = up'[x]
    OBVIOUS
  <2>2. Sound(y)
    BY <1>1, <2>1 DEF IInv, Flights
  <2>3. Sound(y)'
    BY <2>2, SoundStays DEF seen
  <2>. QED BY <2>1, <2>3
<1>2. Apart'
  BY DEF IInv, Flights, Apart
<1>. QED
  BY <1>1, <1>2 DEF IInv, Flights, PromisedPagesStored, UntornSiteWhole,
                    RejectedLeavesNoTrace, VersionAt

LEMMA FileFact ==
    ASSUME IInv, NEW s \in Slugs, PutFile(s) \/ DeleteFile(s)
    PROVE  IInv'
<1>1. UNCHANGED <<failOpen, page, manifest, up, torn>>
  BY DEF PutFile, DeleteFile
<1>2. /\ file \in [Slugs -> BOOLEAN] /\ rd \in [Readers -> Reader \cup {None}]
      /\ \A d \in Readers : rd[d] # None => rd[d] \in Reader /\ rd[d].slug \in Slugs
  BY DEF IInv, TypeOK, Reader
<1>3. CASE PutFile(s)
  <2>1. file' = [file EXCEPT ![s] = TRUE] /\ rd' = rd
    BY <1>3 DEF PutFile
  <2>2. TypeOK'
    BY <1>1, <1>2, <2>1 DEF IInv, TypeOK
  <2>3. Reading'
    <3>. SUFFICES ASSUME NEW d \in Readers, rd[d] # None PROVE Pending(rd[d])'
      BY <2>1 DEF Reading
    <3>1. Pending(rd[d])
      BY DEF IInv, Reading
    <3>. QED BY <1>1, <1>2, <2>1, <3>1 DEF Pending
  <2>. QED BY <1>1, <2>2, <2>3, SiteStays DEF IInv
<1>4. CASE DeleteFile(s)
  <2>1. file' = [file EXCEPT ![s] = FALSE]
    BY <1>4 DEF DeleteFile
  <2>2. ASSUME NEW d \in Readers
        PROVE  rd'[d] = IF rd[d] # None /\ rd[d].slug = s /\ (rd[d].view \/ manifest[s] = None)
                          THEN [rd[d] EXCEPT !.gone = TRUE] ELSE rd[d]
    BY <1>4, NoneFact DEF DeleteFile, Lost
  <2>3. rd' \in [Readers -> Reader \cup {None}]
    <3>1. \A q \in Reader : [q EXCEPT !.gone = TRUE] \in Reader
      BY DEF Reader
    <3>2. rd' = [d \in Readers |-> rd'[d]]
      BY <1>4 DEF DeleteFile, Lost
    <3>. QED BY <1>2, <2>2, <3>1, <3>2
  <2>4. TypeOK'
    BY <1>1, <1>2, <2>1, <2>3 DEF IInv, TypeOK
  <2>5. Reading'
    <3>. SUFFICES ASSUME NEW d \in Readers, rd'[d] # None PROVE Pending(rd[d])'
      BY DEF Reading
    <3>1. PICK q : q = rd[d]
      OBVIOUS
    <3>2. q \in Reader /\ q # None /\ Pending(q)
      BY <1>2, <2>2, <3>1 DEF IInv, Reading
    <3>3. CASE q.slug = s /\ (q.view \/ manifest[s] = None)
      <4>1. rd'[d].gone
        BY <2>2, <3>1, <3>2, <3>3 DEF Reader
      <4>. QED BY <4>1 DEF Pending
    <3>4. CASE q.slug = s /\ ~q.view /\ manifest[s] # None
      <4>1. rd'[d] = q /\ manifest' = manifest
        BY <1>1, <2>2, <3>1, <3>4
      <4>. QED BY <3>2, <3>4, <4>1 DEF Pending
    <3>5. CASE q.slug # s
      <4>1. rd'[d] = q /\ manifest' = manifest /\ file'[q.slug] = file[q.slug]
        BY <1>1, <1>2, <2>1, <2>2, <3>1, <3>2, <3>5
      <4>. QED BY <3>2, <4>1 DEF Pending
    <3>. QED BY <3>3, <3>4, <3>5, <3>2
  <2>. QED BY <1>1, <2>4, <2>5, SiteStays DEF IInv
<1>. QED BY <1>3, <1>4

\* One reader goes on as q, or ends.
LEMMA ReaderFact ==
    ASSUME IInv, NEW d \in Readers, NEW q \in Reader \cup {None}, rd' = [rd EXCEPT ![d] = q],
           q # None => Pending(q), UNCHANGED <<failOpen, page, manifest, file, up, torn>>
    PROVE  IInv'
<1>1. TypeOK'
  BY DEF IInv, TypeOK
<1>2. Reading'
  <2>. SUFFICES ASSUME NEW e \in Readers, rd'[e] # None PROVE Pending(rd[e])'
    BY DEF Reading
  <2>1. Pending(rd'[e])
    BY DEF IInv, TypeOK, Reading
  <2>2. PICK o : o = rd'[e]
    OBVIOUS
  <2>3. Pending(o)'
    BY <2>1, <2>2 DEF Pending
  <2>. QED BY <2>2, <2>3
<1>. QED BY <1>1, <1>2, SiteStays DEF IInv

LEMMA AsksFact ==
    /\ Head(<<"file">>) = "file" /\ Tail(<<"file">>) = <<>>
    /\ Head(<<"site">>) = "site" /\ Tail(<<"site">>) = <<>>
    /\ Head(<<"file", "site">>) = "file" /\ Tail(<<"file", "site">>) = <<"site">>
    /\ Head(<<"site", "file">>) = "site" /\ Tail(<<"site", "file">>) = <<"file">>
OBVIOUS

\* They are different from each other.
LEMMA AsksApart ==
    /\ <<"file">> # <<>> /\ <<"site">> # <<>> /\ <<"file">> # <<"site">>
    /\ <<"file", "site">> # <<"site", "file">>
    /\ \A x, y \in {"file", "site"} : <<x>> # <<"file", "site">> /\ <<x>> # <<"site", "file">>
    /\ <<"file", "site">> # <<>> /\ <<"site", "file">> # <<>>
OBVIOUS

LEMMA TellFact ==
    ASSUME IInv, NEW d \in Readers, Tell(d)
    PROVE  IInv'
<1>1. ASSUME NEW s \in Slugs, NEW view \in BOOLEAN, NEW asks,
             StartReader(d, s, view, asks),
             \/ view /\ asks = <<"site", "file">>
             \/ ~view /\ asks = <<"file", "site">>
      PROVE  IInv'
  <2>1. PICK q : q = [slug |-> s, view |-> view, asks |-> asks, found |-> "",
                      gone |-> ~file[s] /\ manifest[s] = None]
    OBVIOUS
  <2>2. q \in Reader
    BY <1>1, <2>1 DEF Reader, Asks
  <2>3. Pending(q)
    <3>1. CASE view /\ asks = <<"site", "file">>
      BY <2>1, <3>1, AsksApart DEF Pending
    <3>2. CASE ~view /\ asks = <<"file", "site">>
      BY <2>1, <3>2, AsksApart DEF Pending
    <3>. QED BY <1>1, <3>1, <3>2
  <2>. QED BY <1>1, <2>1, <2>2, <2>3, ReaderFact DEF StartReader
<1>2. CASE AskStore(d)
  <2>1. PICK q : q = rd[d]
    OBVIOUS
  <2>2. q \in Reader /\ q # None /\ Pending(q) /\ q.asks # <<>>
    BY <1>2, <2>1 DEF AskStore, IInv, TypeOK, Reading
  <2>3. PICK o : o = IF Holds(q.slug, Head(q.asks))
                       THEN [q EXCEPT !.asks = <<>>, !.found = Head(q.asks)]
                       ELSE [q EXCEPT !.asks = Tail(q.asks)]
    OBVIOUS
  <2>4. rd' = [rd EXCEPT ![d] = o] /\ UNCHANGED <<failOpen, page, manifest, file, up, torn>>
    BY <1>2, <2>1, <2>3 DEF AskStore
  <2>5. q.asks \in Asks /\ q.found \in {"", "file", "site"}
    BY <2>2 DEF Reader
  <2>6. CASE q.asks = <<"file">>
    <3>1. o = IF file[q.slug] THEN [q EXCEPT !.asks = <<>>, !.found = "file"]
                              ELSE [q EXCEPT !.asks = <<>>]
      BY <2>3, <2>6, AsksFact DEF Holds
    <3>2. o \in Reader
      BY <2>2, <3>1 DEF Reader, Asks
    <3>3. Pending(o)
      BY <2>2, <2>6, <3>1, AsksApart DEF Pending, Reader
    <3>. QED BY <2>4, <3>2, <3>3, ReaderFact
  <2>7. CASE q.asks = <<"site">>
    <3>1. o = IF manifest[q.slug] # None THEN [q EXCEPT !.asks = <<>>, !.found = "site"]
                                         ELSE [q EXCEPT !.asks = <<>>]
      BY <2>3, <2>7, AsksFact DEF Holds
    <3>2. o \in Reader
      BY <2>2, <3>1 DEF Reader, Asks
    <3>3. Pending(o)
      BY <2>2, <2>7, <3>1, AsksApart DEF Pending, Reader
    <3>. QED BY <2>4, <3>2, <3>3, ReaderFact
  <2>8. CASE q.asks = <<"file", "site">>
    <3>1. o = IF file[q.slug] THEN [q EXCEPT !.asks = <<>>, !.found = "file"]
                              ELSE [q EXCEPT !.asks = <<"site">>]
      BY <2>3, <2>8, AsksFact DEF Holds
    <3>2. o \in Reader
      BY <2>2, <3>1 DEF Reader, Asks
    <3>3. Pending(o)
      BY <2>2, <2>8, <3>1, AsksApart DEF Pending, Reader
    <3>. QED BY <2>4, <3>2, <3>3, ReaderFact
  <2>9. CASE q.asks = <<"site", "file">>
    <3>1. o = IF manifest[q.slug] # None THEN [q EXCEPT !.asks = <<>>, !.found = "site"]
                                         ELSE [q EXCEPT !.asks = <<"file">>]
      BY <2>3, <2>9, AsksFact DEF Holds
    <3>2. o \in Reader
      BY <2>2, <3>1 DEF Reader, Asks
    <3>3. Pending(o)
      BY <2>2, <2>9, <3>1, AsksApart DEF Pending, Reader
    <3>. QED BY <2>4, <3>2, <3>3, ReaderFact
  <2>. QED BY <2>2, <2>5, <2>6, <2>7, <2>8, <2>9 DEF Asks
<1>3. CASE Answer(d)
  BY <1>3, ReaderFact DEF Answer
<1>. QED BY <1>1, <1>2, <1>3 DEF Tell, StartView, StartLookup

LEMMA RestartFact ==
    ASSUME IInv, Restart
    PROVE  IInv'
<1>1. TypeOK'
  BY DEF IInv, TypeOK, Restart
<1>2. Flights' /\ Reading'
  BY DEF Flights, Apart, Reading, Restart
<1>3. PromisedPagesStored' /\ UntornSiteWhole' /\ RejectedLeavesNoTrace'
  BY DEF IInv, Restart, PromisedPagesStored, UntornSiteWhole, RejectedLeavesNoTrace, VersionAt
<1>. QED BY <1>1, <1>2, <1>3 DEF IInv

-----------------------------------------------------------------------------
(* Theorems.                                                               *)

LEMMA InitInv == Init => IInv
<1>. SUFFICES ASSUME Init PROVE IInv
  OBVIOUS
<1>1. TypeOK
  BY DEF Init, TypeOK
<1>2. Flights /\ Reading
  BY DEF Init, Flights, Apart, Reading
<1>3. PromisedPagesStored /\ UntornSiteWhole /\ RejectedLeavesNoTrace
  BY DEF Init, PromisedPagesStored, UntornSiteWhole, RejectedLeavesNoTrace
<1>. QED BY <1>1, <1>2, <1>3 DEF IInv

LEMMA NextInv == IInv /\ [Next]_vars => IInv'
<1>. SUFFICES ASSUME IInv, [Next]_vars PROVE IInv'
  OBVIOUS
<1>1. ASSUME NEW r \in Uploads, Serve(r) PROVE IInv'
  BY <1>1, CheckFact, PutFact, ManifestFact DEF Serve
<1>2. CASE UNCHANGED vars
  <2>1. TypeOK' /\ Reading'
    BY <1>2, ReadingStays DEF vars, IInv, TypeOK
  <2>. QED BY <1>2, <2>1, SiteStays DEF vars, IInv
<1>. QED BY <1>1, <1>2, StartFact, FileFact, TellFact, RestartFact DEF Next

\* What an upload in flight stands for, whoever else is at its slug.
THEOREM Invariance == Spec => []IInv
BY InitInv, NextInv, PTL DEF Spec

(* Type correctness of the pages, manifests, uploads and readers.          *)
THEOREM TypeCorrect == Spec => []TypeOK
<1>1. IInv => TypeOK
  BY DEF IInv
<1>. QED BY Invariance, <1>1, PTL

\* Every page a manifest promises is stored, wherever uploads overlap, fail and stop.
THEOREM PromisesKept == Spec => []PromisedPagesStored
<1>1. IInv => PromisedPagesStored
  BY DEF IInv
<1>. QED BY Invariance, <1>1, PTL

\* A site is whole from the moment a lone upload completes until another touches it.
THEOREM SitesWhole == Spec => []UntornSiteWhole
<1>1. IInv => UntornSiteWhole
  BY DEF IInv
<1>. QED BY Invariance, <1>1, PTL

\* Nothing of an archive with a blocked page or too many files is ever stored.
THEOREM RejectedSafe == Spec => []RejectedLeavesNoTrace
<1>1. IInv => RejectedLeavesNoTrace
  BY DEF IInv
<1>. QED BY Invariance, <1>1, PTL

\* A page is stored only under a path of the archive being put.
LEMMA PutAskable ==
    ASSUME IInv, StoredPageReachable, [Next]_vars
    PROVE  StoredPageReachable'
<1>1. CASE page' = page
  BY <1>1 DEF StoredPageReachable
<1>2. ASSUME NEW r \in Uploads, NEW p \in Paths, At(r, "pages"), p \in up[r].left, Stored(r, p)
      PROVE  StoredPageReachable'
  <2>. PICK q : q = up[r]
    OBVIOUS
  <2>1. q \in Upload /\ q.zip \in Zips /\ q.slug \in Slugs /\ Sound(q) /\ q.step = "pages"
    BY <1>2 DEF IInv, TypeOK, Flights, At, Upload
  <2>2. Admitted(q.zip) /\ p \in Pages(q.zip)
    BY <1>2, <2>1 DEF Sound, Checked
  <2>3. p = RawPage \/ AsksFor(p, p)
    BY <2>1, <2>2, PagesAskable
  <2>4. page \in [Slugs -> [Paths -> Zips \cup {None}]]
    BY DEF IInv, TypeOK
  <2>5. page' = [page EXCEPT ![q.slug] = [page[q.slug] EXCEPT ![p] = q.zip]]
    BY <1>2 DEF Stored
  <2>. SUFFICES ASSUME NEW s \in Slugs, NEW x \in Paths, page'[s][x] # None
                PROVE  x = RawPage \/ AsksFor(x, x)
    BY DEF StoredPageReachable
  <2>6. CASE s = q.slug /\ x = p
    BY <2>3, <2>6
  <2>7. CASE ~(s = q.slug /\ x = p)
    <3>1. page'[s][x] = page[s][x]
      BY <2>1, <2>4, <2>5, <2>7
    <3>. QED BY <3>1 DEF StoredPageReachable
  <2>. QED BY <2>6, <2>7
<1>3. ASSUME NEW r \in Uploads, Start(r) PROVE page' = page
  BY <1>3 DEF Start, StartCreate, StartOverwrite, StartMatch
<1>4. ASSUME NEW r \in Uploads, Serve(r) PROVE StoredPageReachable'
  <2>1. CASE Match(r) \/ HeadSite(r) \/ PutSiteManifest(r) \/ Fails(r)
    BY <1>1, <2>1 DEF Match, HeadSite, PutSiteManifest, Fails
  <2>2. ASSUME NEW p \in Paths, Inspect(r, p) \/ InspectFails(r, p) PROVE page' = page
    BY <2>2 DEF Inspect, InspectFails
  <2>3. ASSUME NEW p \in Paths, PutSiteFile(r, p) \/ PutSiteFileFails(r, p)
        PROVE  StoredPageReachable'
    BY <1>1, <1>2, <2>3 DEF PutSiteFile, PutSiteFileFails
  <2>. QED BY <1>1, <1>4, <2>1, <2>2, <2>3 DEF Serve
<1>5. ASSUME NEW d \in Readers, Tell(d) PROVE page' = page
  BY <1>5 DEF Tell, StartView, StartLookup, StartReader, AskStore, Answer
<1>6. ASSUME NEW s \in Slugs, PutFile(s) \/ DeleteFile(s) PROVE page' = page
  BY <1>6 DEF PutFile, DeleteFile
<1>7. CASE Restart
  BY <1>1, <1>7 DEF Restart
<1>8. CASE UNCHANGED vars
  BY <1>1, <1>8 DEF vars
<1>. QED BY <1>1, <1>3, <1>4, <1>5, <1>6, <1>7, <1>8 DEF Next

\* Whatever the archive's names were, each of its pages is what a request for its path
\* looks for, unless it is called 'raw': the path passes the check it was made by, and
\* cleaning it again changes nothing.
THEOREM StoredReachable == Spec => []StoredPageReachable
<1>1. Init => StoredPageReachable
  <2>1. Init => \A s \in Slugs, x \in Paths : page[s][x] = None
    BY DEF Init
  <2>. QED BY <2>1 DEF StoredPageReachable
<1>2. IInv /\ StoredPageReachable /\ [Next]_vars => StoredPageReachable'
  BY PutAskable
<1>. QED BY Invariance, <1>1, <1>2, PTL DEF Spec

\* Whatever is stored under a site's slug, from however many uploads, is from archives
\* that passed as a whole and lies at paths that can be asked for, 'raw' excepted.
THEOREM PagesSafe == Spec => []PagesSound
<1>1. TypeOK /\ RejectedLeavesNoTrace /\ StoredPageReachable => PagesSound
  BY DEF PagesSound
<1>. QED BY TypeCorrect, RejectedSafe, StoredReachable, <1>1, PTL

\* Nobody is told that a slug is empty that was not empty at some instant meanwhile.
THEOREM NotFoundSafe == Spec => []NotFoundIsTrue
<1>1. IInv => NotFoundIsTrue
  BY DEF IInv, Reading, Pending, NotFoundIsTrue
<1>. QED BY Invariance, <1>1, PTL

\* A manifest replaced by an upload that met nobody was there to be replaced.
THEOREM LoneUploadsAsAsked == Spec => LoneUploadReplacesAsAsked
<1>1. ASSUME IInv, NEW r \in Uploads, At(r, "manifest"), up[r].alone
      PROVE  /\ up[r].ifMatch # None => VersionAt(up[r].slug) = up[r].ifMatch
             /\ ~up[r].overwrite /\ ~up[r].generated => manifest[up[r].slug] = None
  BY <1>1 DEF IInv, Flights, At, Sound, AsAsked
<1>2. IInv => [\A r \in Uploads :
                 LET q == up[r]
                 IN  At(r, "manifest") /\ q.alone /\ manifest' # manifest =>
                       /\ q.ifMatch # None => VersionAt(q.slug) = q.ifMatch
                       /\ ~q.overwrite /\ ~q.generated => manifest[q.slug] = None]_vars
  BY <1>1
<1>. QED BY Invariance, <1>2, PTL DEF LoneUploadReplacesAsAsked

=============================================================================
