---------------------------- MODULE CommentBoard ----------------------------
(***************************************************************************)
(* What the comment service promises its callers, whatever overlaps: each  *)
(* change of a comment is one operation, with that operation's checks, on  *)
(* the comment as it is or as somebody still at work saw it.  It does not  *)
(* promise that the two are the same: that is what concurrent callers can  *)
(* lose.                                                                   *)
(***************************************************************************)
EXTENDS Naturals

CONSTANTS Users, Texts, Ids, Resources, Versions, None

VARIABLES
    board,    \* the comment stored under each id, or None
    sights    \* what those at work have seen of each comment

BoardInit ==
    /\ board = [i \in Ids |-> None]
    /\ sights = [i \in Ids |-> {}]

Live(c) == c # None /\ c.deleted = None
Open(c) == Live(c) /\ c.parent = None /\ c.resolved = None

Becomes(i, c) == board' = [board EXCEPT ![i] = c]

Added(i, parent, u, t, x, v) ==
    /\ board[i] = None
    /\ Becomes(i, [parent |-> parent, author |-> u, body |-> [by |-> u, text |-> t],
                   edited |-> None, deleted |-> None, resolved |-> None,
                   resource |-> x, version |-> v])

\* A new thread on the artifact.
Post(i, u, t, x, v) == Added(i, None, u, t, x, v)

\* A reply joins a thread that was seen open, and shares its anchor.
Reply(i, j, u, t, v) ==
    \E root \in sights[j] : Open(root) /\ Added(i, j, u, t, root.resource, v)

\* The author replaces the words of a comment seen live.
Amend(i, c, t) ==
    Live(c) /\ Becomes(i, [c EXCEPT !.body = [by |-> c.author, text |-> t], !.edited = c.author])

\* The author takes a comment seen live back, and leaves a tombstone.
Withdraw(i, c) == Live(c) /\ Becomes(i, [c EXCEPT !.body = None, !.deleted = c.author])

\* Anyone resolves a thread seen open, or reopens one seen resolved.
Settle(i, c, u) == Open(c) /\ Becomes(i, [c EXCEPT !.resolved = u])

Reopen(i, c) ==
    Live(c) /\ c.parent = None /\ c.resolved # None /\ Becomes(i, [c EXCEPT !.resolved = None])

\* A comment goes with its artifact.
Remove(i) == Becomes(i, None)

Operation(i) ==
    \/ \E u \in Users, t \in Texts, v \in Versions :
          \/ \E x \in Resources : Post(i, u, t, x, v)
          \/ \E j \in Ids : Reply(i, j, u, t, v)
    \/ \E c \in sights[i] :
          \/ \E t \in Texts : Amend(i, c, t)
          \/ Withdraw(i, c)
          \/ \E u \in Users : Settle(i, c, u)
          \/ Reopen(i, c)
    \/ Remove(i)

\* Nobody sees a comment otherwise than as it is.
Looking == \A i \in Ids : sights'[i] \subseteq sights[i] \cup {board[i]}

BoardNext ==
    /\ UNCHANGED board \/ \E i \in Ids : Operation(i)
    /\ Looking

BoardSpec == BoardInit /\ [][BoardNext]_<<board, sights>>

=============================================================================
