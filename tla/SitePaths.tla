------------------------------ MODULE SitePaths ------------------------------
(***************************************************************************)
(* The names of a ZIP's entries and the paths its files are stored under.  *)
(* A name is the sequence of the parts between its slashes: a leading       *)
(* slash makes the first part empty, a directory's trailing one the last.  *)
(***************************************************************************)
EXTENDS Naturals, Sequences

CONSTANT Forbidden   \* parts that hold a backslash or a zero byte

Mac   == "__MACOSX"
Index == <<"index.html">>

Ignored(name) == Len(name) > 1 /\ Head(name) = Mac

IsDir(name) == Len(name) > 1 /\ name[Len(name)] = ""

\* The top directory that all entries share, directories among them, or none; it is the
\* empty part when all names begin with a slash.
StripPrefix(names) ==
    LET own == {n \in names : ~Ignored(n)}
        top == {Head(n) : n \in own}
    IN  IF \E dir \in top : top = {dir} /\ \A n \in own : Len(n) > 1
          THEN <<CHOOSE dir \in top : TRUE>>
          ELSE <<>>

Trim(name, prefix) ==
    IF prefix # <<>> /\ Len(name) > 1 /\ Head(name) = Head(prefix) THEN Tail(name) ELSE name

\* path.Clean of a relative name, part by part.
Cleaned(path, part) ==
    IF part \in {"", "."} THEN path
    ELSE IF part = ".." /\ path # <<>> /\ path[Len(path)] # ".."
      THEN SubSeq(path, 1, Len(path) - 1)
      ELSE Append(path, part)

CleanUpTo(name) ==
    LET upTo[i \in 0..Len(name)] ==
          IF i = 0 THEN <<>> ELSE Cleaned(upTo[i-1], name[i])
    IN  upTo

Clean(name) == CleanUpTo(name)[Len(name)]

SafeName(name, prefix) ==
    /\ \A i \in 1..Len(name) : name[i] \notin Forbidden
    /\ LET value == Trim(name, prefix)
       IN  /\ Head(value) # ""
           /\ Clean(value) # <<>>
           /\ Head(Clean(value)) # ".."

\* safeSitePath, for the names it accepts.
StoredPath(name, prefix) == Clean(Trim(name, prefix))

-----------------------------------------------------------------------------
(* What a ZIP comes to.                                                    *)

Files(names) == {n \in names : ~IsDir(n) /\ ~Ignored(n)}

HasIndex(names) == \E n \in Files(names) : Trim(n, StripPrefix(names)) = Index

AllSafe(names) == \A n \in Files(names) : SafeName(n, StripPrefix(names))

PathsOf(names) == {StoredPath(n, StripPrefix(names)) : n \in Files(names)}

-----------------------------------------------------------------------------
(* What a request for /{slug}/{path} comes to.                             *)

\* Requests for it go to the handler of single files instead.
RawPage == <<"raw">>

\* handleSiteAsset looks for page p when asked for this path.
AsksFor(path, p) ==
    /\ path # RawPage
    /\ SafeName(path, <<>>)
    /\ Clean(path) = p

=============================================================================
