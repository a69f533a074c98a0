------------------------------- MODULE Polls -------------------------------
(***************************************************************************)
(* Polls of posts: their creation here, the votes of local users through   *)
(* the API and of remote ones through the inbox, the refreshes of polls    *)
(* kept elsewhere, and what their servers are told of our votes            *)
(* (src/src/routes/api/posts/mod.rs, src/src/apub_util/ingest.rs).         *)
(*                                                                         *)
(* A request reads the poll, and changes the votes in a transaction of its *)
(* own; the deliveries are enqueued one by one by a job after that, if the *)
(* inbox of the poll's author was known when the request read the poll.    *)
(***************************************************************************)
EXTENDS Integers, FiniteSets

CONSTANTS
  OwnPolls,     \* polls of local posts
  FarPolls,     \* polls of posts whose author is on another server
  Choices,      \* Choices[p] : the options that poll may have
  Plural,       \* polls that allow several options
  Voters,       \* local users
  Strangers,    \* users of other servers
  Ballots,      \* the sets of options a client may ask for
  Hands,        \* requests that are handled at once
  MaxCast,      \* bound: ballots that are cast
  MaxRefreshes  \* bound: documents that bring or change a poll kept elsewhere

PollRows == OwnPolls \cup FarPolls
Electors == Voters \cup Strangers
AllChoices == UNION {Choices[p] : p \in PollRows}

ASSUME PollsAssumption ==
  /\ OwnPolls \cap FarPolls = {} /\ Plural \subseteq PollRows /\ DOMAIN Choices = PollRows
  /\ \A p, q \in PollRows : p # q => Choices[p] \cap Choices[q] = {}
  /\ \A p \in PollRows : IsFiniteSet(Choices[p])
  /\ Voters \cap Strangers = {} /\ Ballots \subseteq SUBSET AllChoices
  /\ IsFiniteSet(Hands) /\ MaxCast \in Nat /\ MaxRefreshes \in Nat

VARIABLES
  options,    \* options[p] : its poll_option rows; none when there is no poll
  severed,    \* polls that no longer take votes: is_closed, or closed_at has passed
  plural,     \* polls that are multiple-choice
  votes,      \* votes[p][u] : the poll_vote rows
  ballot,     \* what each request is about
  tally,      \* tally[p][u][o] : votes sent for an option, less the undos
  reached,    \* polls kept elsewhere whose author and inbox and whose post's id are known
  spent,      \* options that there were and are no more
  untold,     \* <<p, u, o>> : a delivery that was never enqueued, for whatever reason
  refreshes,  \* documents that changed a poll
  cast        \* ballots that were cast

pollVars == <<options, severed, plural, votes, ballot, tally, reached, spent, untold, refreshes, cast>>

NoBallot == [at |-> "none"]

PollsInit ==
  /\ \E held \in SUBSET FarPolls :
       options = [p \in PollRows |-> IF p \in held THEN Choices[p] ELSE {}]
  /\ severed = {} /\ plural = Plural
  /\ votes = [p \in PollRows |-> [u \in Electors |-> {}]]
  /\ ballot = [r \in Hands |-> NoBallot]
  /\ tally = [p \in FarPolls |-> [u \in Voters |-> [o \in AllChoices |-> 0]]]
  /\ reached \in SUBSET FarPolls /\ spent = {} /\ untold = {} /\ refreshes = 0 /\ cast = 0

Exists(o) == \E p \in PollRows : o \in options[p]

-----------------------------------------------------------------------------
\* route_unstable_posts_create: the poll, its options and the post in one
\* transaction; options of one name (`clash`) undo it all.
CreatePoll(p, clash) ==
  /\ p \in OwnPolls /\ options[p] = {} /\ p \notin severed /\ Choices[p] # {}
  /\ IF clash THEN UNCHANGED options ELSE options' = [options EXCEPT ![p] = Choices[p]]
  /\ UNCHANGED <<severed, plural, votes, ballot, tally, reached, spent, untold, refreshes, cast>>

\* Its time is over.
PollEnds(p) ==
  /\ options[p] # {} /\ p \notin severed /\ severed' = severed \cup {p}
  /\ UNCHANGED <<options, plural, votes, ballot, tally, reached, spent, untold, refreshes, cast>>

\* The author's document names an inbox, or none any more.
AuthorChanges(p) ==
  /\ p \in FarPolls
  /\ reached' = IF p \in reached THEN reached \ {p} ELSE reached \cup {p}
  /\ UNCHANGED <<options, severed, plural, votes, ballot, tally, spent, untold, refreshes, cast>>

\* route_unstable_posts_poll_your_vote_set, up to its transaction: one option of a
\* single-choice poll, any number of another.  The ids are taken as they come, and
\* may be of another poll.  Whom to tell is read here.
OpenVote(r, u, p, chosen) ==
  /\ ballot[r] = NoBallot /\ options[p] # {} /\ p \notin severed /\ cast < MaxCast
  /\ p \notin plural => Cardinality(chosen) = 1
  /\ ballot' = [ballot EXCEPT ![r] =
                   [at |-> "vote", voter |-> u, poll |-> p, chosen |-> chosen,
                    author |-> p \in reached]]
  /\ cast' = cast + 1
  /\ UNCHANGED <<options, severed, plural, votes, tally, reached, spent, untold, refreshes>>

\* As TakenBack, without the poll_id in the statement.
TakenBackEverywhere(u, p, chosen) == [q \in PollRows |-> votes[q][u] \ chosen]

\* The rows a user takes back: those in this poll for another option.
TakenBack(u, p, chosen) ==
  [q \in PollRows |-> IF q = p THEN votes[q][u] \ chosen ELSE {}]

\* The rows a vote by inbox takes back: in a single-choice poll all of that person,
\* those in other polls too, as the DELETE names the person only.
TakenByInbox(u, p) == [q \in PollRows |-> IF p \in plural THEN {} ELSE votes[q][u]]

\* Rows that a transaction in progress has deleted: another one waits for them.
Locked(u, q) ==
  UNION {ballot[r].gone[q] : r \in {x \in Hands : ballot[x].at = "change" /\ ballot[x].voter = u}}

\* The transaction: first the DELETE, which does not see rows that others have
\* inserted and not committed.
DeleteVotes(r) ==
  /\ ballot[r].at \in {"vote", "heard"}
  /\ LET u == ballot[r].voter
         p == ballot[r].poll
         gone == IF ballot[r].at = "vote" THEN TakenBack(u, p, ballot[r].chosen)
                 ELSE TakenByInbox(u, p)
     IN  /\ \A q \in PollRows : Locked(u, q) \cap gone[q] = {}
         /\ ballot' = [ballot EXCEPT ![r] =
              [at |-> "change", voter |-> u, poll |-> p, chosen |-> ballot[r].chosen,
               author |-> ballot[r].author, gone |-> gone]]
  /\ UNCHANGED <<options, severed, plural, votes, tally, reached, spent, untold, refreshes, cast>>

\* It fails for an option that is gone, and for one the person has voted for already.
Fails(u, p, chosen, gone) ==
  options[p] = {} \/ \E o \in chosen : ~Exists(o) \/ o \in votes[p][u] \ gone[p]

\* The votes whose poll is kept elsewhere.
Tellable == FarPolls \X Voters \X AllChoices

\* The deliveries of a request that changed votes.
Notices(p, u, removed, added) == {p} \X {u} \X (removed \cup added)

\* Then the INSERT, and the commit; a failure takes the DELETE back.  A user's vote
\* in a poll kept elsewhere is to be told, every removed row as one of this poll; to
\* an author who is not known, or has no inbox, nobody tells it.
InsertVotes(r) ==
  /\ ballot[r].at = "change"
  /\ LET u == ballot[r].voter
         p == ballot[r].poll
         chosen == ballot[r].chosen
         gone == ballot[r].gone
         removed == UNION {gone[q] : q \in PollRows}
         others == [ballot EXCEPT ![r] = NoBallot]
         waits == \E x \in Hands \ {r} : /\ ballot[x].at = "change" /\ ballot[x].voter = u
                                         /\ ballot[x].gone[p] \cap chosen # {}
     IN  IF waits \/ Fails(u, p, chosen, gone)
         THEN \* waiting for one another, one of two is aborted
              /\ waits => \E x \in Hands \ {r} : /\ ballot[x].at = "change" /\ ballot[x].voter = u
                                                /\ gone[ballot[x].poll] \cap ballot[x].chosen # {}
              /\ ballot' = others /\ UNCHANGED <<votes, untold>>
         ELSE /\ votes' = [q \in PollRows |->
                             [votes[q] EXCEPT ![u] = (votes[q][u] \ gone[q])
                                                       \cup (IF q = p THEN chosen ELSE {})]]
              /\ IF ballot[r].author /\ removed \cup chosen # {}
                 THEN /\ ballot' = [ballot EXCEPT ![r] =
                              [at |-> "tell", voter |-> u, poll |-> p,
                               removed |-> removed, added |-> chosen]]
                      /\ UNCHANGED untold
                 ELSE /\ ballot' = others
                      /\ untold' = untold \cup (Notices(p, u, removed, chosen) \cap Tellable)
  /\ UNCHANGED <<options, severed, plural, tally, reached, spent, refreshes, cast>>

Sign(o, job) == (IF o \in job.added THEN 1 ELSE 0) - (IF o \in job.removed THEN 1 ELSE 0)

\* The spawned job enqueues one delivery: first an Undo for each removed row, then a
\* Create for each new one.
TellAuthor(r, o) ==
  /\ ballot[r].at = "tell"
  /\ LET job == ballot[r]
         rest == [job EXCEPT !.removed = @ \ {o}, !.added = @ \ {o}]
     IN  /\ o \in IF job.removed # {} THEN job.removed ELSE job.added
         /\ tally' = [tally EXCEPT ![job.poll][job.voter][o] = @ + Sign(o, job)]
         /\ ballot' = [ballot EXCEPT ![r] =
                          IF rest.removed \cup rest.added = {} THEN NoBallot ELSE rest]
  /\ UNCHANGED <<options, severed, plural, votes, reached, spent, untold, refreshes, cast>>

\* What it had not enqueued when it ended.
Lost(r) == IF ballot[r].at = "tell"
           THEN Notices(ballot[r].poll, ballot[r].voter, ballot[r].removed, ballot[r].added) ELSE {}

\* The inbox is no URL, or the row of a delivery cannot be written: the job ends there.
TellFails(r) ==
  /\ ballot[r].at = "tell"
  /\ ballot' = [ballot EXCEPT ![r] = NoBallot] /\ untold' = untold \cup Lost(r)
  /\ UNCHANGED <<options, severed, plural, votes, tally, reached, spent, refreshes, cast>>

\* A Note that answers a local post and has a name is a vote, if an option has that
\* name: read here, and written after the actor was looked up.
HearVote(r, u, p, o) ==
  /\ ballot[r] = NoBallot /\ p \in OwnPolls /\ o \in options[p] /\ p \notin severed /\ cast < MaxCast
  /\ ballot' = [ballot EXCEPT ![r] = [at |-> "heard", voter |-> u, poll |-> p, chosen |-> {o},
                                    author |-> FALSE]]
  /\ cast' = cast + 1
  /\ UNCHANGED <<options, severed, plural, votes, tally, reached, spent, untold, refreshes>>

\* handle_recieved_post: the document of a remote post brings a poll, replaces its
\* options by name, or removes it all, and says whether it is closed and multiple; an
\* option that has gone takes its votes with it and comes back as another row, and so
\* does a poll.
RefreshPoll(p, names, many, ended) ==
  /\ p \in FarPolls /\ names \subseteq Choices[p] \ spent /\ refreshes < MaxRefreshes
  /\ options[p] = {} => names # {} /\ Choices[p] \cap spent = {}
  /\ \A q \in PollRows, u \in Electors : Locked(u, q) \cap (options[p] \ names) = {}
  /\ names = {} => \A u \in Electors : Locked(u, p) = {}
  /\ options' = [options EXCEPT ![p] = names]
  /\ votes' = [q \in PollRows |-> [u \in Electors |-> IF q = p /\ names = {} THEN {}
                                              ELSE votes[q][u] \ (options[p] \ names)]]
  /\ spent' = spent \cup (options[p] \ names)
  /\ plural' = IF many THEN plural \cup {p} ELSE plural \ {p}
  /\ severed' = IF ended THEN severed \cup {p} ELSE severed \ {p}
  /\ refreshes' = refreshes + 1
  /\ UNCHANGED <<ballot, tally, reached, untold, cast>>

\* The server stops: a transaction that did not commit is undone, and a job that was
\* spawned is lost.
ServerStops ==
  /\ \E r \in Hands : ballot[r] # NoBallot
  /\ ballot' = [r \in Hands |-> NoBallot]
  /\ untold' = untold \cup UNION {Lost(r) : r \in Hands}
  /\ UNCHANGED <<options, severed, plural, votes, tally, reached, spent, refreshes, cast>>

PollsNext ==
  \/ \E p \in OwnPolls, clash \in BOOLEAN : CreatePoll(p, clash)
  \/ \E p \in PollRows : PollEnds(p)
  \/ \E r \in Hands, u \in Voters, p \in PollRows, chosen \in Ballots :
       OpenVote(r, u, p, chosen)
  \/ \E p \in FarPolls : AuthorChanges(p)
  \/ \E r \in Hands : DeleteVotes(r) \/ InsertVotes(r) \/ TellFails(r)
  \/ \E r \in Hands, o \in AllChoices : TellAuthor(r, o)
  \/ \E r \in Hands, u \in Strangers, p \in OwnPolls, o \in AllChoices : HearVote(r, u, p, o)
  \/ \E p \in FarPolls, names \in SUBSET AllChoices, many, ended \in BOOLEAN :
       RefreshPoll(p, names, many, ended)
  \/ ServerStops

PollsSpec == PollsInit /\ [][PollsNext]_pollVars

-----------------------------------------------------------------------------
\* The types of the variables.
PollsTypeOK ==
  /\ options \in [PollRows -> SUBSET AllChoices] /\ severed \cup plural \subseteq PollRows
  /\ votes \in [PollRows -> [Electors -> SUBSET AllChoices]]
  /\ tally \in [FarPolls -> [Voters -> [AllChoices -> Int]]]
  /\ \A r \in Hands : ballot[r].at \in {"none", "vote", "heard", "change", "tell"}
  /\ reached \subseteq FarPolls /\ spent \subseteq AllChoices
  /\ untold \subseteq Tellable
  /\ refreshes \in 0..MaxRefreshes /\ cast \in 0..MaxCast

\* What the jobs of a person's requests have still to tell of an option.
Owed(p, u, o) ==
  LET jobs == {r \in Hands : ballot[r].at = "tell" /\ ballot[r].poll = p /\ ballot[r].voter = u}
  IN    Cardinality({r \in jobs : o \in ballot[r].added})
      - Cardinality({r \in jobs : o \in ballot[r].removed})

\* The server of a poll is told of exactly the votes that a user has in it here:
\* whatever requests of one user overlap, retract one another or fail, the votes
\* sent for an option less the Undos, with those still to be sent, are the row that
\* is there, as long as the option is, and unless a delivery for it was never
\* enqueued: the author had no inbox, the job failed part way or the server stopped.
VotesTold ==
  \A p \in FarPolls, u \in Voters, o \in AllChoices :
    options[p] # {} /\ Exists(o) /\ <<p, u, o>> \notin untold =>
      tally[p][u][o] + Owed(p, u, o) = IF o \in votes[p][u] THEN 1 ELSE 0
=============================================================================
