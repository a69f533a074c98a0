------------------------------- MODULE Inbox -------------------------------
(***************************************************************************)
(* What other servers' activities do to the copy of one post and of one    *)
(* reply to it (src/src/apub_util/ingest.rs, the inbox tasks of            *)
(* src/src/tasks.rs).                                                      *)
(*                                                                         *)
(* The community is either hosted here, and the author's server sends the  *)
(* activities, or it is remote, and announces what its members write.      *)
(* Tasks are performed in several lanes, are retried, and need not keep the*)
(* order of sending.  Between looking at the community or the parent and   *)
(* writing the row, a handler awaits; those are its two steps.  What is to be *)
(* forwarded is handed to the queue by jobs in memory, which a stop loses.   *)
(***************************************************************************)
EXTENDS Naturals, FiniteSets, Sequences

CONSTANTS
  Lanes,      \* lanes that perform inbox tasks
  Announces,  \* ids of the community's announcements of the post
  Adds,       \* those of them that are Adds to its outbox
  MaxSent,    \* bound: activities the other server sends
  MaxWorks    \* bound: activities taken out of order, or once more

ASSUME InboxAssumption ==
  /\ Adds \subseteq Announces /\ MaxSent \in Nat /\ MaxWorks \in Nat
  /\ Announces \cap {"nobody", "outbox", "create", "createReply", "announceReply", "post",
                     "reply"} = {}

VARIABLES
  hosted,       \* the community is local
  origin,       \* the other server: post, reply, and the announcement that stands
  sent,         \* the activities it has sent
  communityRow, \* our row of the community: "none", "live", "deleted"
  tracked,      \* a local follow of it is accepted
  postRow,      \* our row of the post
  replyRow,     \* our row of the reply: "none", "live", "tombstone"
  work,         \* work[l] : the task in lane l, between its two steps
  forwarded,    \* forwarded[what] to followers of a hosted community: jobs that are
                \* to do it, those that handed it to the queue, and those lost
  grounds,      \* history: ingested approvals of the post not taken back
  applied,      \* history: how many of `sent` were applied, each once, in order
  strays        \* activities taken otherwise

inboxVars == <<hosted, origin, sent, communityRow, tracked, postRow, replyRow, work,
               forwarded, grounds, applied, strays>>

NoPost == [row |-> "none", approved |-> FALSE, by |-> "nobody", rejected |-> FALSE]
IdleLane == [pc |-> "idle"]
NoForward == [jobs |-> 0, sent |-> 0, lost |-> 0]
Orderly == strays = 0

InboxInit ==
  /\ hosted \in BOOLEAN
  /\ origin = [post |-> "none", reply |-> "none", standing |-> "nobody"]
  /\ sent = <<>>
  /\ communityRow = "live" /\ tracked \in BOOLEAN
  /\ postRow = NoPost /\ replyRow = "none"
  /\ work = [l \in Lanes |-> IdleLane]
  /\ forwarded = [reply |-> NoForward, delete |-> NoForward]
  /\ grounds = {} /\ applied = 0 /\ strays = 0

-----------------------------------------------------------------------------
Activity(kind, id) == [kind |-> kind, id |-> id]
Send(a) == Len(sent) < MaxSent /\ sent' = Append(sent, a)
HereUnchanged == UNCHANGED <<hosted, communityRow, tracked, postRow, replyRow, work, forwarded,
                             grounds, applied, strays>>

\* The other server: an author publishes and deletes, a remote community
\* announces (again), takes back an announcement, or removes the post.
Publish ==
  /\ origin.post = "none"
  /\ origin' = [origin EXCEPT !.post = "live", !.standing = IF hosted THEN @ ELSE "outbox"]
  /\ IF hosted THEN Send(Activity("Create", "create")) ELSE UNCHANGED sent
  /\ HereUnchanged

SendAnnounce(a) ==
  /\ ~hosted /\ origin.post = "live" /\ origin.standing \in {"outbox", "nobody"}
  /\ \A i \in DOMAIN sent : sent[i].id # a
  /\ Send(Activity(IF a \in Adds THEN "Add" ELSE "Announce", a))
  /\ origin' = [origin EXCEPT !.standing = a]
  /\ HereUnchanged

SendUndo ==
  /\ origin.standing \in Announces
  /\ Send(Activity("Undo", origin.standing))
  /\ origin' = [origin EXCEPT !.standing = "nobody"]
  /\ HereUnchanged

SendRemove ==
  /\ ~hosted /\ origin.standing # "nobody"
  /\ Send(Activity("Remove", "post"))
  /\ origin' = [origin EXCEPT !.standing = "nobody"]
  /\ HereUnchanged

\* A reply goes to a hosted community from its author, and is announced by a
\* remote one under an id of its own.
WriteReply ==
  /\ origin.post = "live" /\ origin.reply = "none"
  /\ Send(Activity("Reply", IF hosted THEN "createReply" ELSE "announceReply"))
  /\ origin' = [origin EXCEPT !.reply = "live"]
  /\ HereUnchanged

SendDelete(thing) ==
  /\ origin[thing] = "live"
  /\ Send(Activity("Delete", thing))
  /\ origin' = [origin EXCEPT ![thing] = "deleted"]
  /\ HereUnchanged

-----------------------------------------------------------------------------
Stray == strays < MaxWorks /\ strays' = strays + 1

\* The task that carries sent[i] is performed: next in turn, or again after it
\* could not be verified or fetched, or before its turn.
Turn(i) ==
  /\ i \in DOMAIN sent
  /\ IF i = applied + 1 /\ \A l \in Lanes : work[l] = IdleLane
     THEN applied' = i /\ UNCHANGED strays
     ELSE Stray /\ UNCHANGED applied

StartWork(l, w) == work[l] = IdleLane /\ work' = [work EXCEPT ![l] = w]
Ends(l) == work' = [work EXCEPT ![l] = IdleLane]
Post(by, approves) == [pc |-> "post", by |-> by, approves |-> approves]
Reply(by, approves) == [pc |-> "reply", by |-> by, approves |-> approves]
Parent(by) == [pc |-> "parent", by |-> by]

\* remote_community_post_is_wanted.  What was looked up, or is in a preview of the
\* community's outbox, is wanted without a follow of it.
Wanted(unfollowed) == hosted \/ (communityRow = "live" /\ (tracked \/ unfollowed))

\* Its refusal: the local follows of the community go, and with them the
\* community when it has no post (Follow has the undo rows).
RefuseUntracked(l) ==
  /\ communityRow = "live" /\ ~hosted /\ ~tracked
  /\ work[l] = IdleLane /\ UNCHANGED work
  /\ communityRow' = IF postRow.row = "none" THEN "none" ELSE communityRow

\* handle_received_page_for_community, up to its write.
Admit(l, w, unfollowed) == Wanted(unfollowed) /\ StartWork(l, w)

\* VerifyAndIngestObjectFromInbox skips announcements of communities nobody
\* follows before it verifies them.
EarlySkip(i) == sent[i].kind = "Announce" /\ ~(communityRow = "live" /\ tracked)

\* approved_ap_id: an announcement's own id, none for a Create.
Approval(i) == IF sent[i].kind = "Create" THEN "nobody" ELSE sent[i].id

\* The object is embedded and trusted, or it is fetched, which may fail.
TakePost(l, i) ==
  /\ Turn(i) /\ work[l] = IdleLane
  /\ \/ /\ ~EarlySkip(i) /\ Admit(l, Post(Approval(i), TRUE), FALSE)
        /\ UNCHANGED communityRow
     \/ ~EarlySkip(i) /\ RefuseUntracked(l)
     \/ /\ EarlySkip(i) \/ communityRow # "live" \/ origin.post # "live"
        /\ UNCHANGED <<work, communityRow>>
  /\ UNCHANGED <<hosted, origin, sent, tracked, postRow, replyRow, forwarded, grounds>>

TakeAnnounce(l, i) == i \in DOMAIN sent /\ sent[i].kind = "Announce" /\ TakePost(l, i)
TakeAdd(l, i)      == i \in DOMAIN sent /\ sent[i].kind = "Add" /\ TakePost(l, i)
TakeCreate(l, i)   == i \in DOMAIN sent /\ sent[i].kind = "Create" /\ TakePost(l, i)

\* A page of the community's outbox, or of the preview of one.
TakeListed(l, preview) ==
  /\ ~hosted /\ origin.post = "live" /\ origin.standing # "nobody"
  /\ Stray
  /\ work[l] = IdleLane
  /\ \/ Admit(l, Post("nobody", TRUE), preview) /\ UNCHANGED communityRow
     \/ ~preview /\ RefuseUntracked(l)
  /\ UNCHANGED <<hosted, origin, sent, tracked, postRow, replyRow, forwarded, grounds, applied>>

\* A user looks the post up by its URL.
TakeLookedUp(l) ==
  /\ ~hosted /\ origin.post = "live"
  /\ Stray
  /\ Admit(l, Post("nobody", FALSE), TRUE)
  /\ UNCHANGED <<hosted, origin, sent, communityRow, tracked, postRow, replyRow, forwarded,
                 grounds, applied>>

\* The refresh of a post we have.
TakeRefreshed(l) ==
  /\ ~hosted /\ origin.post = "live" /\ postRow.row # "none"
  /\ Admit(l, Post("nobody", FALSE), FALSE)
  /\ UNCHANGED <<hosted, origin, sent, communityRow, tracked, postRow, replyRow, forwarded,
                 grounds, applied, strays>>

Approving(w) == w.approves \/ hosted

\* Mutant: a post that is there keeps the announcement it has.
StorePostKeepsBy(w) ==
  /\ postRow' = IF postRow.row = "none"
             THEN [row |-> "live", approved |-> Approving(w), by |-> w.by, rejected |-> FALSE]
             ELSE [postRow EXCEPT !.approved = @ \/ Approving(w)]
  /\ grounds' = IF Approving(w) THEN grounds \cup {w.by} ELSE grounds

\* Mutant: the upsert writes the content too.
StorePostAfresh(w) ==
  /\ postRow' = [row |-> "live", approved |-> Approving(w) \/ postRow.approved, by |-> w.by, rejected |-> FALSE]
  /\ grounds' = IF Approving(w) THEN grounds \cup {w.by} ELSE grounds

\* The upsert of handle_recieved_post.  A row that is there keeps its content,
\* and its mark as rejected.
StorePost(w) ==
  /\ postRow' = IF postRow.row = "none"
             THEN [row |-> "live", approved |-> Approving(w), by |-> w.by, rejected |-> FALSE]
             ELSE [postRow EXCEPT !.approved = @ \/ Approving(w),
                               !.by = IF Approving(w) THEN w.by ELSE @]
  /\ grounds' = IF Approving(w) THEN grounds \cup {w.by} ELSE grounds

WritePost(l) ==
  /\ work[l].pc = "post"
  /\ IF communityRow = "none" THEN UNCHANGED <<postRow, grounds>>  \* the foreign key refuses it
     ELSE StorePost(work[l])
  /\ Ends(l)
  /\ UNCHANGED <<hosted, origin, sent, communityRow, tracked, replyRow, forwarded, applied, strays>>

\* handle_recieved_reply: the parent is looked up, and fetched when it is not
\* here.
TakeReply(l, i) ==
  /\ Turn(i) /\ sent[i].kind = "Reply"
  /\ work[l] = IdleLane
  /\ \/ /\ origin.reply = "live" /\ postRow.row = "live" /\ communityRow = "live" /\ Wanted(FALSE)
        /\ StartWork(l, Reply(sent[i].id, TRUE))
        /\ UNCHANGED communityRow
     \/ /\ origin.reply = "live" /\ postRow.row = "none" /\ origin.post = "live" /\ Wanted(FALSE)
        /\ StartWork(l, Parent(sent[i].id))
        /\ UNCHANGED communityRow
     \/ /\ origin.reply = "live" /\ (postRow.row = "live" \/ origin.post = "live")
        /\ RefuseUntracked(l)
     \/ /\ \/ origin.reply # "live" \/ postRow.row = "tombstone" \/ communityRow # "live"
           \/ postRow.row = "none" /\ origin.post # "live"
        /\ UNCHANGED <<work, communityRow>>
  /\ UNCHANGED <<hosted, origin, sent, tracked, postRow, replyRow, forwarded, grounds>>

\* reply_parent_fetch_found_from: the announcement of the reply approves the parent
\* too; for a reply that came by itself it is a refresh.
AsParent(by) == IF hosted THEN Post("nobody", FALSE) ELSE Post(by, TRUE)

WriteParent(l) ==
  /\ work[l].pc = "parent"
  /\ IF communityRow = "none"
     THEN Ends(l) /\ UNCHANGED <<postRow, grounds>>
     ELSE /\ StorePost(AsParent(work[l].by))
          /\ work' = [work EXCEPT ![l] = Reply(work[l].by, TRUE)]
  /\ UNCHANGED <<hosted, origin, sent, communityRow, tracked, replyRow, forwarded, applied, strays>>

\* A job is spawned that forwards it to the followers.
Forwarded(what) == IF hosted THEN [forwarded EXCEPT ![what].jobs = @ + 1] ELSE forwarded

\* Mutant: every delivery of the reply is forwarded.
WriteReplyRowAlways(l) ==
  /\ work[l].pc = "reply"
  /\ IF postRow.row = "live" /\ communityRow = "live"
     THEN /\ replyRow' = IF replyRow = "none" THEN "live" ELSE replyRow
          /\ forwarded' = Forwarded("reply")
     ELSE UNCHANGED <<replyRow, forwarded>>
  /\ Ends(l)
  /\ UNCHANGED <<hosted, origin, sent, communityRow, tracked, postRow, grounds, applied, strays>>

\* The transaction of handle_recieved_reply: the parent is read again, under a
\* lock, and a reply that is new gets a job that forwards it.
WriteReplyRow(l) ==
  /\ work[l].pc = "reply"
  /\ IF postRow.row = "live" /\ communityRow = "live" /\ replyRow = "none"
     THEN /\ replyRow' = "live"
          /\ forwarded' = Forwarded("reply")
     ELSE UNCHANGED <<replyRow, forwarded>>
  /\ Ends(l)
  /\ UNCHANGED <<hosted, origin, sent, communityRow, tracked, postRow, grounds, applied, strays>>

-----------------------------------------------------------------------------
Dismissed(row) == IF row = "live" THEN "tombstone" ELSE row

\* ingest_delete of the post or of the reply: one statement, and a job that
\* forwards the Delete when it changed a row of a hosted community.
TakeDelete(l, i) ==
  /\ Turn(i) /\ sent[i].kind = "Delete" /\ work[l] = IdleLane
  /\ IF sent[i].id = "post"
     THEN postRow' = [postRow EXCEPT !.row = Dismissed(@)] /\ UNCHANGED replyRow
     ELSE replyRow' = Dismissed(replyRow) /\ UNCHANGED postRow
  /\ forwarded' = IF <<postRow', replyRow'>> # <<postRow, replyRow>> THEN Forwarded("delete") ELSE forwarded
  /\ UNCHANGED <<hosted, origin, sent, communityRow, tracked, work, grounds>>

Rejected == [postRow EXCEPT !.approved = FALSE, !.by = "nobody", !.rejected = TRUE]

\* ingest_undo of an announcement: of the one the row was last approved by.
TakeUndo(l, i) ==
  /\ Turn(i) /\ sent[i].kind = "Undo" /\ work[l] = IdleLane
  /\ postRow' = IF postRow.row # "none" /\ postRow.by = sent[i].id THEN Rejected ELSE postRow
  /\ grounds' = grounds \ {sent[i].id}
  /\ UNCHANGED <<hosted, origin, sent, communityRow, tracked, replyRow, work, forwarded>>

\* Mutant: a Remove reaches posts of this server only.
TakeRemoveLocal(l, i) ==
  /\ Turn(i) /\ sent[i].kind = "Remove" /\ work[l] = IdleLane
  /\ grounds' = {}
  /\ UNCHANGED <<hosted, origin, sent, communityRow, tracked, postRow, replyRow, work, forwarded>>

\* A Remove from the community's outbox.
TakeRemove(l, i) ==
  /\ Turn(i) /\ sent[i].kind = "Remove" /\ work[l] = IdleLane
  /\ postRow' = IF postRow.row # "none" /\ communityRow # "none" THEN Rejected ELSE postRow
  /\ grounds' = {}
  /\ UNCHANGED <<hosted, origin, sent, communityRow, tracked, replyRow, work, forwarded>>

\* enqueue_forward_to_community_followers: the job hands it to the queue, or fails.
Forward(what, fails) ==
  /\ forwarded[what].jobs > 0
  /\ LET was == forwarded[what]
     IN  forwarded' = [forwarded EXCEPT ![what] =
                         IF fails THEN [was EXCEPT !.jobs = was.jobs - 1, !.lost = was.lost + 1]
                         ELSE [was EXCEPT !.jobs = was.jobs - 1, !.sent = was.sent + 1]]
  /\ UNCHANGED <<hosted, origin, sent, communityRow, tracked, postRow, replyRow, work, grounds,
                 applied, strays>>

\* The server stops.  Its jobs are lost; a task it was at is performed again.
StopInbox ==
  /\ forwarded' = [what \in {"reply", "delete"} |->
                     [jobs |-> 0, sent |-> forwarded[what].sent,
                      lost |-> forwarded[what].lost + forwarded[what].jobs]]
  /\ IF \A l \in Lanes : work[l] = IdleLane THEN UNCHANGED strays ELSE Stray
  /\ work' = [l \in Lanes |-> IdleLane]
  /\ UNCHANGED <<hosted, origin, sent, communityRow, tracked, postRow, replyRow, grounds, applied>>

\* A local user's follow of the community is accepted, or ends.
TrackChanges ==
  /\ ~hosted /\ communityRow = "live" /\ tracked' = ~tracked
  /\ Stray
  /\ UNCHANGED <<hosted, origin, sent, communityRow, postRow, replyRow, work, forwarded, grounds, applied>>

\* ingest_delete of the community itself.
TakeCommunityDelete ==
  /\ ~hosted /\ communityRow = "live" /\ Stray
  /\ communityRow' = "deleted"
  /\ UNCHANGED <<hosted, origin, sent, tracked, postRow, replyRow, work, forwarded, grounds, applied>>

\* CLEANUP_OLD_REMOTE_POSTS_SQL: the post of a remote community goes, with its
\* replies, unless a task holds the row.
CleanUp ==
  /\ ~hosted /\ postRow.row # "none"
  /\ Stray
  /\ postRow' = NoPost /\ replyRow' = "none" /\ grounds' = {}
  /\ UNCHANGED <<hosted, origin, sent, communityRow, tracked, work, forwarded, applied>>

InboxNext ==
  \/ Publish \/ SendUndo \/ SendRemove \/ WriteReply
  \/ \E a \in Announces : SendAnnounce(a)
  \/ \E thing \in {"post", "reply"} : SendDelete(thing)
  \/ \E l \in Lanes, i \in 1..MaxSent :
       \/ TakeAnnounce(l, i) \/ TakeAdd(l, i) \/ TakeCreate(l, i) \/ TakeReply(l, i)
       \/ TakeDelete(l, i) \/ TakeUndo(l, i) \/ TakeRemove(l, i)
  \/ \E l \in Lanes : \/ \E preview \in BOOLEAN : TakeListed(l, preview)
                      \/ TakeLookedUp(l) \/ TakeRefreshed(l)
                      \/ WritePost(l) \/ WriteParent(l) \/ WriteReplyRow(l)
  \/ \E what \in {"reply", "delete"}, fails \in BOOLEAN : Forward(what, fails)
  \/ StopInbox
  \/ TrackChanges
  \/ TakeCommunityDelete
  \/ CleanUp

InboxSpec == InboxInit /\ [][InboxNext]_inboxVars

-----------------------------------------------------------------------------
\* Rows, tasks and histories are what they are declared to be; a post that is
\* not there has no approval, and a reply never outlives its post's row.
InboxTypeOK ==
  /\ communityRow \in {"none", "live", "deleted"} /\ {hosted, tracked} \subseteq BOOLEAN
  /\ postRow.row \in {"none", "live", "tombstone"}
  /\ postRow.row = "none" => postRow = NoPost /\ replyRow = "none"
  /\ replyRow \in {"none", "live", "tombstone"}
  /\ \A l \in Lanes : work[l].pc \in {"idle", "post", "parent", "reply"}
  /\ applied \in 0..Len(sent) /\ Len(sent) \in 0..MaxSent /\ strays \in 0..MaxWorks

\* A deleted post or reply does not come back to life on its row: not by an
\* announcement or a reply taken late, again, or begun before the Delete, nor
\* by an outbox page or a refresh read before it.
DeleteWins ==
  [][/\ postRow.row = "tombstone" => postRow'.row # "live"
     /\ replyRow = "tombstone" => replyRow' # "live"]_inboxVars

\* A post is approved only while some approval of it that was ingested has not
\* been taken back since: whatever the order, an Undo of the announcement the
\* row was last approved by is never missed.
ApprovedOnGrounds == postRow.approved => grounds # {}

\* However often an activity is delivered, a hosted community's followers are owed
\* each new reply and one Delete for each row deleted, and what is owed is handed
\* to the queue once, by the one job there is for it, or was lost with that job.
EverSpawned(what) == forwarded[what].jobs + forwarded[what].sent + forwarded[what].lost
ForwardedOnce ==
  /\ EverSpawned("reply") = IF hosted /\ replyRow # "none" THEN 1 ELSE 0
  /\ EverSpawned("delete") = (IF hosted /\ postRow.row = "tombstone" THEN 1 ELSE 0)
                      + (IF hosted /\ replyRow = "tombstone" THEN 1 ELSE 0)

\* Whoever keeps following, and gets every activity once and in order, has the
\* post and the reply as the other server has them.  One exception is in the
\* code: a post first fetched as the parent of an announced reply counts as
\* announced itself.
FaithfulWhenOrderly ==
  Orderly /\ applied = Len(sent) /\ (hosted \/ tracked) /\ (\A l \in Lanes : work[l] = IdleLane) =>
    /\ origin.post = "deleted" => postRow.row # "live"
    /\ origin.reply = "deleted" => replyRow # "live"
    /\ origin.post = "live" =>
         /\ hosted \/ origin.standing \in Announces => postRow.row = "live" /\ postRow.approved
         /\ origin.reply = "live" => replyRow = "live"
    /\ ~hosted /\ origin.standing = "nobody" /\ postRow.approved => postRow.by = "announceReply"
=============================================================================
