------------------------------- MODULE Notify -------------------------------
(***************************************************************************)
(* Notifications: comment activity queued by the comment service, and the  *)
(* one goroutine of notify.Dispatcher that delivers it through             *)
(* slackapp.Notifier.  The comments of one artifact are written meanwhile, *)
(* Slack accounts come and go, calls fail or lose their answers, and the   *)
(* server may restart, with an empty queue and an empty cache.             *)
(***************************************************************************)
EXTENDS Slack, Sequences, FiniteSets

CONSTANTS
    People,       \* email addresses, as NormalizeEmail leaves them
    Owner,        \* of the artifact
    Starter,      \* bound: who wrote the first thread
    Flaky,        \* bound: whose Slack accounts come and go
    QueueSize,    \* activities the queue holds
    Attempts,     \* at delivering one message
    UserTTL,      \* how long a Slack user is remembered
    MissingTTL,   \* how long it is remembered that there is none
    MaxComments,  \* bound: comments stored
    MaxActs,      \* bound: activities reported
    MaxFlips      \* bound: accounts opened or closed

ASSUME NotifyAssumption ==
    /\ Owner \in People /\ Starter \in People /\ Flaky \subseteq People
    /\ MaxComments \in Nat \ {0} /\ MaxActs \in Nat /\ MaxFlips \in Nat
    /\ QueueSize \in Nat \ {0} /\ Attempts \in Nat \ {0}
    /\ MissingTTL \in Nat /\ UserTTL \in Nat /\ MissingTTL <= UserTTL

Indices == 1..MaxComments

Kinds == {"thread_created", "reply_created", "thread_resolved", "thread_reopened"}

Comment == [thread: Indices, author: People, deleted: BOOLEAN]

\* history: live are the comments of the thread that were not deleted at the write.
Activity == [kind: Kinds, actor: People, comment: Indices, live: SUBSET Indices]

User == [id: BOOLEAN, expires: Nat]   \* id: there is one

Delivery ==
    [step: {"artifact", "thread", "next", "user", "post", "sleep"},
     act:  Activity, rest: Seq(People), try: 1..Attempts]

Outcomes == {"sent", "failed", "undeliverable"}

ASSUME NotifyNoneAssumption ==
    None \notin User /\ None \notin Delivery /\ None \notin Outcomes

VARIABLES
    comments,  \* of the artifact; the first of a thread names it
    resolved,  \* the threads that are
    pending,   \* activity of writes that are stored, not reported yet
    acts,      \* how many were reported
    queue,     \* Dispatcher.queue
    delivery,  \* what Run is at; None when it waits for the queue
    users,     \* Notifier.users
    account,   \* who has a Slack account
    flips,
    gone,      \* history: when each was without an account, None after MissingTTL
    told,      \* history: messages posted to each for this activity
    unsure,    \* history: attempts that posted and lost the answer
    over       \* history: to whom delivery has ended, and how

store == <<comments, resolved, pending>>
accounts == <<now, account, flips, gone>>
tally == <<told, unsure, over>>
notifyVars  == <<store, acts, queue, delivery, users, accounts, tally>>

NotifyTypeOK ==
    /\ comments \in Seq(Comment) /\ Len(comments) <= MaxComments
    /\ resolved \in SUBSET Indices
    /\ pending \in SUBSET Activity
    /\ acts \in 0..MaxActs
    /\ queue \in Seq(Activity) /\ Len(queue) <= QueueSize
    /\ delivery \in Delivery \cup {None}
    /\ users \in [People -> User \cup {None}]
    /\ now \in 0..MaxTime
    /\ account \in SUBSET People /\ flips \in 0..MaxFlips
    /\ gone \in [People -> 0..MaxTime \cup {None}]
    /\ told \in [People -> 0..Attempts] /\ unsure \in [People -> 0..Attempts]
    /\ over \in [People -> Outcomes \cup {None}]

\* The artifact has a thread already.
NotifyInit ==
    /\ comments = <<[thread |-> 1, author |-> Starter, deleted |-> FALSE]>>
    /\ resolved = {} /\ pending = {} /\ acts = 0
    /\ queue = <<>> /\ delivery = None /\ users = [p \in People |-> None]
    /\ now = 0 /\ account \in {People, People \ Flaky} /\ flips = 0
    /\ gone = [p \in People |-> IF p \in account THEN None ELSE 0]
    /\ told = [p \in People |-> 0] /\ unsure = [p \in People |-> 0]
    /\ over = [p \in People |-> None]

-----------------------------------------------------------------------------
(* The comment service: a write, then emit.                                *)

Ids == DOMAIN comments

Open(t) ==
    /\ t \in Ids
    /\ comments[t].thread = t /\ ~comments[t].deleted

Live(cs, t) == {i \in DOMAIN cs : cs[i].thread = t /\ ~cs[i].deleted}

Stores(kind, p, i, cs) ==
    /\ acts + Cardinality(pending) < MaxActs
    /\ pending' = pending \cup
         {[kind |-> kind, actor |-> p, comment |-> i, live |-> Live(cs, cs[i].thread)]}
    /\ UNCHANGED <<acts, queue, delivery, users, accounts, tally>>

Writes(kind, p, t) ==
    LET cs == Append(comments, [thread |-> t, author |-> p, deleted |-> FALSE])
    IN  /\ Len(comments) < MaxComments
        /\ comments' = cs
        /\ Stores(kind, p, Len(cs), cs)
        /\ UNCHANGED resolved

Create(p) == Writes("thread_created", p, Len(comments) + 1)

Reply(p, t) ==
    /\ Open(t) /\ t \notin resolved
    /\ Writes("reply_created", p, t)

Resolve(p, t) ==
    /\ Open(t) /\ t \notin resolved
    /\ resolved' = resolved \cup {t}
    /\ Stores("thread_resolved", p, t, comments)
    /\ UNCHANGED comments

Reopen(p, t) ==
    /\ Open(t) /\ t \in resolved
    /\ resolved' = resolved \ {t}
    /\ Stores("thread_reopened", p, t, comments)
    /\ UNCHANGED comments

\* Nobody is told of a deletion.
Delete(i) ==
    /\ i \in Ids /\ ~comments[i].deleted
    /\ comments' = [comments EXCEPT ![i].deleted = TRUE]
    /\ UNCHANGED <<resolved, pending, acts, queue, delivery, users, accounts, tally>>

\* CommentActivity: when the queue is full, the activity is dropped.
Emit(a) ==
    /\ a \in pending
    /\ pending' = pending \ {a}
    /\ acts' = acts + 1
    /\ queue' = IF Len(queue) < QueueSize THEN Append(queue, a) ELSE queue
    /\ UNCHANGED <<comments, resolved, delivery, users, accounts, tally>>

-----------------------------------------------------------------------------
(* Who hears of an activity.                                               *)

KeptUpTo(s, keep) ==
    LET f[n \in 0..Len(s)] ==
          IF n = 0 THEN <<>>
          ELSE IF n \in keep THEN Append(f[n-1], s[n]) ELSE f[n-1]
    IN  f

\* What a loop over s collects that appends the elements at some positions.
Kept(s, keep) == KeptUpTo(s, keep)[Len(s)]

InThread(a) == Kept(comments, Live(comments, comments[a.comment].thread))

Candidates(a) ==
    IF a.kind = "thread_created" THEN <<Owner>>
    ELSE IF a.kind = "reply_created"
      THEN <<Owner>> \o [i \in DOMAIN InThread(a) |-> InThread(a)[i].author]
      ELSE <<comments[a.comment].author>>

\* Mutants, here and below: the definition that follows, with a plausible bug.
RecipientsTwice(a) ==
    LET c == Candidates(a)
    IN  Kept(c, {i \in DOMAIN c : c[i] # a.actor})

\* Each once, and never the one who acted.
Recipients(a) ==
    LET c == Candidates(a)
    IN  Kept(c, {i \in DOMAIN c : c[i] # a.actor /\ \A j \in 1..(i-1) : c[j] # c[i]})

-----------------------------------------------------------------------------
(* Run and handle.                                                         *)

RunAt(step) == delivery # None /\ delivery.step = step

RunTo(step) == delivery' = [delivery EXCEPT !.step = step] /\ UNCHANGED tally

\* Run waits for the queue again.
Waits ==
    /\ delivery' = None
    /\ told' = [p \in People |-> 0]
    /\ unsure' = [p \in People |-> 0]
    /\ over' = [p \in People |-> None]

Dequeue ==
    /\ delivery = None /\ queue # <<>>
    /\ delivery' = [step |-> "artifact", act |-> Head(queue), rest |-> <<>>, try |-> 1]
    /\ queue' = Tail(queue)
    /\ UNCHANGED <<store, acts, users, accounts, tally>>

\* The artifact, and for a reply the comments, are read now; an error skips the activity.
LookUp ==
    LET a == delivery.act
    IN  /\ \/ /\ RunAt("artifact") /\ a.kind = "reply_created"
              /\ RunTo("thread")
           \/ /\ RunAt("thread") \/ (RunAt("artifact") /\ a.kind # "reply_created")
              /\ delivery' = [delivery EXCEPT !.step = "next", !.rest = Recipients(a)]
              /\ UNCHANGED tally
           \/ /\ RunAt("artifact") \/ RunAt("thread")
              /\ Waits
        /\ UNCHANGED <<store, acts, queue, users, accounts>>

NextRecipient ==
    /\ RunAt("next")
    /\ IF delivery.rest = <<>>
         THEN Waits
         ELSE /\ delivery' = [delivery EXCEPT !.step = "user", !.try = 1]
              /\ UNCHANGED tally
    /\ UNCHANGED <<store, acts, queue, users, accounts>>

\* Delivery to the first recipient ends; the next one's follows whatever its outcome.
DeliveryEnds(outcome) ==
    /\ delivery' = [delivery EXCEPT !.step = "next", !.rest = Tail(@)]
    /\ over' = [over EXCEPT ![Head(delivery.rest)] = outcome]

Pause == delivery' = [delivery EXCEPT !.step = "sleep"] /\ UNCHANGED over

FailsForAll ==
    IF delivery.try = Attempts
      THEN /\ delivery' = [delivery EXCEPT !.step = "next", !.rest = <<>>]
           /\ over' = [over EXCEPT ![Head(delivery.rest)] = "failed"]
      ELSE Pause

FailsNever ==
    IF delivery.try = Attempts
      THEN delivery' = [delivery EXCEPT !.step = "sleep", !.try = 1] /\ UNCHANGED over
      ELSE Pause

\* deliver: a failure that may pass is tried again after a pause, Attempts times in all.
Fails == IF delivery.try = Attempts THEN DeliveryEnds("failed") ELSE Pause

Wake ==
    /\ RunAt("sleep")
    /\ delivery' = [delivery EXCEPT !.step = "user", !.try = @ + 1]
    /\ UNCHANGED <<store, acts, queue, users, accounts, tally>>

-----------------------------------------------------------------------------
(* Notifier.Notify: find the user, then post.                              *)

Remembered(p) == users[p] # None /\ now < users[p].expires

RememberUserTTL(p, found) ==
    users' = [users EXCEPT ![p] = [id |-> found, expires |-> now + UserTTL]]

Remember(p, found) ==
    users' = [users EXCEPT ![p] =
                [id |-> found, expires |-> now + IF found THEN UserTTL ELSE MissingTTL]]

UserID ==
    LET p           == Head(delivery.rest)
        found(user) == IF user
                         THEN delivery' = [delivery EXCEPT !.step = "post"] /\ UNCHANGED over
                         ELSE DeliveryEnds("undeliverable")
    IN  /\ RunAt("user")
        /\ \/ /\ Remembered(p)
              /\ found(users[p].id)
              /\ UNCHANGED users
           \/ /\ ~Remembered(p)
              /\ found(p \in account)
              /\ Remember(p, p \in account)
           \/ /\ ~Remembered(p)
              /\ Fails
              /\ UNCHANGED users
        /\ UNCHANGED <<store, acts, queue, accounts, told, unsure>>

\* The message is posted, or refused for good, or neither; or it is posted, and the
\* attempt times out (no answer in attemptTimeout) as if it were not.
Post ==
    LET p == Head(delivery.rest)
    IN  /\ RunAt("post")
        /\ \/ /\ p \in account
              /\ told' = [told EXCEPT ![p] = @ + 1]
              /\ DeliveryEnds("sent")
              /\ UNCHANGED unsure
           \/ /\ p \notin account
              /\ DeliveryEnds("undeliverable")
              /\ UNCHANGED <<told, unsure>>
           \/ /\ Fails
              /\ UNCHANGED <<told, unsure>>
           \/ /\ p \in account
              /\ told' = [told EXCEPT ![p] = @ + 1]
              /\ unsure' = [unsure EXCEPT ![p] = @ + 1]
              /\ Fails
        /\ UNCHANGED <<store, acts, queue, users, accounts>>

-----------------------------------------------------------------------------
(* Around them.                                                            *)

\* Time passes, and accounts come and go, where Slack or the clock is read next: earlier,
\* nothing would see them.
TimePasses ==
    /\ RunAt("user")
    /\ now < MaxTime
    /\ now' = now + 1
    /\ gone' = [p \in People |->
                  IF p \notin account THEN now + 1
                  ELSE IF gone[p] # None /\ now + 1 < gone[p] + MissingTTL THEN gone[p]
                  ELSE None]
    /\ UNCHANGED <<store, acts, queue, delivery, users, account, flips, tally>>

\* An account is opened or closed.
Flip(p) ==
    /\ RunAt("user") \/ RunAt("post")
    /\ flips < MaxFlips
    /\ flips' = flips + 1
    /\ account' = IF p \in account THEN account \ {p} ELSE account \cup {p}
    /\ gone' = [gone EXCEPT ![p] = now]
    /\ UNCHANGED <<store, acts, queue, delivery, users, now, tally>>

\* What is queued and what is remembered is lost, and writes that had not reported.
NotifyRestart ==
    /\ queue' = <<>>
    /\ Waits
    /\ users' = [p \in People |-> None]
    /\ pending' = {}
    /\ acts' = acts + Cardinality(pending)
    /\ UNCHANGED <<comments, resolved, accounts>>

Comments ==
    \/ \E p \in People : Create(p)
    \/ \E p \in People, t \in Ids : Reply(p, t) \/ Resolve(p, t) \/ Reopen(p, t)
    \/ \E i \in Ids : Delete(i)

Run == Dequeue \/ LookUp \/ NextRecipient \/ UserID \/ Post \/ Wake

\* What is written and reported while messages are sent is not read by them: it is left to
\* the steps before and after, where it does the same.
Listening == delivery = None \/ RunAt("artifact") \/ RunAt("thread")

NotifyNext ==
    \/ Listening /\ Comments
    \/ Listening /\ \E a \in pending : Emit(a)
    \/ Run
    \/ TimePasses
    \/ \E p \in Flaky : Flip(p)
    \/ NotifyRestart

\* Run's goroutine is scheduled, and its calls end (attemptTimeout, the S3 client's own).
NotifySpec == NotifyInit /\ [][NotifyNext]_notifyVars /\ WF_notifyVars(Run)

-----------------------------------------------------------------------------
(* Properties.                                                             *)

\* Each person gets one message per activity, however often it is tried again, and the
\* owner who takes part in the thread too; only an attempt whose answer was lost adds one
\* (deliver, Recipients).
ToldOnce == \A p \in People : told[p] <= 1 + unsure[p]

\* The one who acted hears nothing of it, and a reply is told to nobody whose comments in
\* the thread were all deleted before it was written (Recipients, "never notifies
\* themselves"); whoever joins before the delivery may hear of it.
OnlyThoseConcerned ==
    \A p \in People :
        delivery # None /\ told[p] > 0 =>
            LET a == delivery.act
                t == comments[a.comment].thread
            IN  /\ p # a.actor
                /\ \/ p = Owner
                   \/ \E i \in Ids : /\ comments[i].author = p /\ comments[i].thread = t
                                     /\ i \in a.live \/ i > a.comment

\* Who has been told of an activity: those it concerns, once each.
ToldRight == NotifyTypeOK /\ ToldOnce /\ OnlyThoseConcerned

\* When the deliveries of an activity end, nobody was forgotten who has had a live comment
\* in the thread since it was written, whoever failed before them (handle).
NobodyForgotten ==
    RunAt("next") /\ delivery.rest = <<>> =>
        LET a == delivery.act
            concerned ==
                IF a.kind = "thread_created" THEN {Owner}
                ELSE IF a.kind = "reply_created"
                  THEN {Owner} \cup {comments[i].author : i \in
                                       {j \in a.live : ~comments[j].deleted}}
                  ELSE {comments[a.comment].author}
        IN  \A p \in concerned \ {a.actor} : over[p] # None

\* Nobody is given up as unreachable who has had an account for MissingTTL: the cache
\* forgets a missing user long before a known one (userID's two lifetimes).
GivenUpWasGone ==
    [][\A p \in People :
         over[p] = None /\ over'[p] = "undeliverable" =>
             \/ p \notin account
             \/ gone[p] # None]_notifyVars

\* The dispatcher never stays with one activity: whatever Slack answers, it comes back to
\* an empty queue, or new activity keeps coming, which it cannot here (deliver's attempts).
Drains == []<>(delivery = None /\ queue = <<>>)

=============================================================================
