---------------------------- MODULE VotesProofs ----------------------------
(***************************************************************************)
(* Proofs about module Votes, for any sets of voters and slots and any     *)
(* bounds.                                                                 *)
(*                                                                         *)
(* VotesAccounted is not inductive: a commit does what its transaction set *)
(* out to do, so the invariant must know that the row is still as the      *)
(* transaction found it (Grounded), that no other transaction of the same  *)
(* voter is open (Alone), and that an id yet to be drawn was never in use  *)
(* (Fresh).                                                                *)
(***************************************************************************)
EXTENDS Votes, FiniteSetTheorems, TLAPS

ByVoter(t) == t.kind \in {"like", "unlike", "undo"}

\* The row is as the open transaction saw it, and a new Like is really new.
Grounded ==
  \A s \in Slots : trans[s] # Closed =>
    /\ ByVoter(trans[s]) => trans[s].who \in Voters
    /\ trans[s].kind = "like" =>
         trans[s].id \in Ids
    /\ trans[s].kind = "like" /\ trans[s].who \in Local =>
         /\ vote[trans[s].who] = 0
         /\ trans[s].id \in 1..used[trans[s].who]
         /\ act[trans[s].who][trans[s].id] = "none"
         /\ trans[s].id \notin undone[trans[s].who]
    /\ trans[s].kind = "unlike" =>
         /\ trans[s].who \in Local
         /\ trans[s].id \in Ids
         /\ vote[trans[s].who] = trans[s].id
    /\ trans[s].kind = "undo" => trans[s].who \in Peers

\* One open transaction of a voter at a time.
Alone ==
  \A r, s \in Slots :
    r # s /\ trans[r] # Closed /\ trans[s] # Closed /\ ByVoter(trans[r]) /\ ByVoter(trans[s])
      => trans[r].who # trans[s].who

\* Ids that were not drawn are not in use.
Fresh ==
  \A u \in Local, id \in Ids :
    id > used[u] => vote[u] # id /\ act[u][id] = "none" /\ id \notin undone[u]

AccountedInv == TypeOK /\ VotesAccounted /\ Grounded /\ Alone /\ Fresh

\* An answer that is still to be noted was given.
PostedWasTaken == \A u \in Local, id \in Ids : act[u][id] = "posted" => <<u, id>> \in taken

-----------------------------------------------------------------------------
\* The number of votes is a natural number.
LEMMA CountedIsNat == ASSUME NEW vs PROVE Counted(vs) \in Nat
<1>1. IsFiniteSet(Voters)
  BY VoterAssumption DEF Voters
<1>2. {v \in Voters \ {Author} : vs[v] # 0} \subseteq Voters
  OBVIOUS
<1>3. IsFiniteSet({v \in Voters \ {Author} : vs[v] # 0})
  BY <1>1, <1>2, FS_Subset
<1>4. QED BY <1>3, FS_CardinalityType DEF Counted

\* What a slot holds that is not closed.
LEMMA InSlot == ASSUME TypeOK, NEW s \in Slots, trans[s] # Closed PROVE trans[s] \in Transactions
  BY DEF TypeOK

\* A transaction that begins is one.
LEMMA BegunIsTransaction ==
  ASSUME NEW kind \in {"like", "unlike", "undo"}, NEW v \in Voters, NEW id \in 0..MaxVotes
  PROVE  Begun(kind, v, id) \in Transactions
  BY DEF Begun, Transactions

\* And so is a statement.
LEMMA StatementIsTransaction ==
  ASSUME NEW kind \in {"report", "recount", "likes", "posts"}, NEW n \in Nat,
         NEW doomed \in SUBSET (Peers \X Ids)
  PROVE  Statement(kind, n, doomed) \in Transactions
<1>1. 0 \in 0..MaxVotes
  BY BoundAssumption
<1>2. QED BY <1>1 DEF Statement, Transactions, Nobody

\* What a transaction sees is again a table of votes.
LEMMA SeenIsVotes ==
  ASSUME TypeOK, NEW s \in Slots, trans[s] # Closed
  PROVE  Seen(trans[s]) \in [Voters -> 0..MaxVotes]
<1>1. trans[s].id \in 0..MaxVotes
  BY InSlot DEF Transactions
<1>2. vote \in [Voters -> 0..MaxVotes]
  BY DEF TypeOK
<1>3. 0 \in 0..MaxVotes
  BY BoundAssumption
<1>4. (IF trans[s].kind = "like" THEN trans[s].id ELSE 0) \in 0..MaxVotes
  BY <1>1, <1>3
<1>5. QED BY <1>2, <1>4 DEF Seen

\* Writing a slot keeps the table of transactions one.
LEMMA SlotWritten ==
  ASSUME TypeOK, NEW s \in Slots, NEW t \in Transactions \cup {Closed}
  PROVE  [trans EXCEPT ![s] = t] \in [Slots -> Transactions \cup {Closed}]
  BY DEF TypeOK

\* The operators that several actions are built from keep the types.
LEMMA OpenType ==
  ASSUME TypeOK, NEW s \in Slots, NEW kind \in {"like", "unlike", "undo"},
         NEW v \in Voters, NEW id \in 0..MaxVotes, Open(s, kind, v, id)
  PROVE  trans' \in [Slots -> Transactions \cup {Closed}]
  BY BegunIsTransaction, SlotWritten DEF Open

LEMMA ScanType ==
  ASSUME TypeOK, NEW s \in Slots, NEW kind \in {"report", "recount", "likes", "posts"},
         NEW n \in Nat, NEW doomed \in SUBSET (Peers \X Ids), Scan(s, kind, n, doomed)
  PROVE  trans' \in [Slots -> Transactions \cup {Closed}]
  BY StatementIsTransaction, SlotWritten DEF Scan

LEMMA CloseType ==
  ASSUME TypeOK, NEW s \in Slots, NEW what, Close(s, what)
  PROVE  /\ trans' \in [Slots -> Transactions \cup {Closed}]
         /\ score' \in Nat
         /\ vote' \in [Voters -> 0..MaxVotes]
<1>1. trans' \in [Slots -> Transactions \cup {Closed}]
  BY SlotWritten DEF Close
<1>2. score' \in Nat
  <2>1. trans[s].n \in Nat
    BY InSlot DEF Close, Transactions
  <2>2. QED BY <2>1 DEF Close, Recalculated, Larger, TypeOK
<1>3. vote' \in [Voters -> 0..MaxVotes]
  BY SeenIsVotes DEF Close
<1>4. QED BY <1>1, <1>2, <1>3

\* Marking keeps the marks in range and leaves users without a vote unmarked.
LEMMA MarkType ==
  ASSUME TypeOK, NEW u \in Local, NEW column \in 0..Posted, Mark(u, column)
  PROVE  /\ mark' \in [Local -> 0..Posted]
         /\ \A w \in Local : vote[w] = 0 => mark'[w] = 0
<1>1. Larger(mark[u], column) \in 0..Posted
  BY DEF TypeOK, Larger, Posted
<1>2. QED BY <1>1 DEF Mark, TypeOK

\* A Like that gets on keeps the table of deliveries one.
LEMMA ProgressType ==
  ASSUME TypeOK, NEW u \in Local, NEW id \in Ids, NEW pc \in {"due", "marked", "posted"},
         Progress(u, id, pc)
  PROVE  act' \in [Local -> [Ids -> {"none", "due", "marked", "posted"}]]
  BY DEF Progress, TypeOK

\* Every step keeps the types.
LEMMA TypeStep == TypeOK /\ Grounded /\ [Next]_vars => TypeOK'
<1> SUFFICES ASSUME TypeOK, Grounded, [Next]_vars PROVE TypeOK'
  OBVIOUS
<1> USE DEF Ids
<1>z. 0 \in 0..MaxVotes /\ 0 \in 0..Posted
  BY BoundAssumption DEF Posted
<1>l. \A u \in Local : u \in Voters
  BY DEF Voters
<1>1. ASSUME NEW s \in Slots, NEW u \in Local, OpenLike(s, u) PROVE TypeOK'
  <2>1. used[u] + 1 \in 0..MaxVotes
    BY <1>1, BoundAssumption DEF OpenLike, TypeOK
  <2>2. trans' \in [Slots -> Transactions \cup {Closed}]
    BY <1>1, <1>l, <2>1, OpenType DEF OpenLike, FreshId
  <2>3. used' \in [Local -> 0..MaxVotes]
    BY <1>1, <2>1 DEF OpenLike, TypeOK
  <2>4. QED BY <1>1, <2>2, <2>3 DEF OpenLike, TypeOK
<1>2. ASSUME NEW s \in Slots, NEW u \in Local, OpenUnlike(s, u) PROVE TypeOK'
  <2>1. vote[u] \in 0..MaxVotes
    BY <1>l DEF TypeOK
  <2>2. trans' \in [Slots -> Transactions \cup {Closed}]
    BY <1>2, <1>l, <2>1, OpenType DEF OpenUnlike
  <2>3. QED BY <1>2, <2>2 DEF OpenUnlike, TypeOK
<1>a. Arrive => arrivals' \in 0..MaxArrivals
  BY BoundAssumption DEF Arrive, TypeOK
<1>3. ASSUME NEW s \in Slots, NEW id \in Ids, NEW p \in Peers, OpenRemoteLike(s, p, id) PROVE TypeOK'
  <2>1. p \in Voters /\ id \in 0..MaxVotes
    BY BoundAssumption DEF Voters
  <2>2. trans' \in [Slots -> Transactions \cup {Closed}]
    BY <1>3, <2>1, OpenType DEF OpenRemoteLike
  <2>3. QED BY <1>3, <1>a, <2>2 DEF OpenRemoteLike, TypeOK
<1>4. ASSUME NEW s \in Slots, NEW id \in Ids, NEW v \in Voters, OpenRemoteUndo(s, v, id) PROVE TypeOK'
  <2>1. id \in 0..MaxVotes
    BY BoundAssumption
  <2>2. trans' \in [Slots -> Transactions \cup {Closed}]
    BY <1>4, <2>1, OpenType DEF OpenRemoteUndo
  <2>3. QED BY <1>4, <1>a, <2>2 DEF OpenRemoteUndo, TypeOK
<1>5. ASSUME NEW s \in Slots, Abort(s) PROVE TypeOK'
  <2>1. trans' \in [Slots -> Transactions \cup {Closed}]
    BY <1>5, SlotWritten DEF Abort
  <2>2. QED BY <1>5, <2>1 DEF Abort, TypeOK
<1>6. ASSUME NEW s \in Slots, Recount(s) PROVE TypeOK'
  <2>1. trans[s] # Closed
    BY <1>6 DEF Recount, Closed
  <2>2. trans[s] \in Transactions
    BY <2>1, InSlot
  <2>3. ASSUME NEW n \in Nat PROVE [trans[s] EXCEPT !.pc = "counted", !.n = n] \in Transactions
    BY <2>2 DEF Transactions
  <2>4. trans' = [trans EXCEPT ![s] = [trans[s] EXCEPT !.pc = "counted", !.n = Counted(Seen(trans[s]))]]
    BY <1>6 DEF Recount, TypeOK
  <2>5. trans' \in [Slots -> Transactions \cup {Closed}]
    BY <2>3, <2>4, CountedIsNat, SlotWritten
  <2>6. QED BY <1>6, <2>5 DEF Recount, TypeOK
<1>7. ASSUME NEW s \in Slots, CommitLike(s) PROVE TypeOK'
  <2>1. Close(s, "like")
    BY <1>7 DEF CommitLike
  <2>2. /\ trans' \in [Slots -> Transactions \cup {Closed}]
        /\ score' \in Nat
        /\ vote' \in [Voters -> 0..MaxVotes]
    BY <2>1, CloseType
  <2>3. act' \in [Local -> [Ids -> {"none", "due", "marked", "posted"}]]
    <3>1. CASE trans[s].who \in Local
      <4>1. trans[s].id \in Ids
        BY <2>1 DEF Close, Grounded
      <4>2. Progress(trans[s].who, trans[s].id, "due")
        BY <1>7, <3>1 DEF CommitLike, Progress
      <4>3. QED BY <3>1, <4>1, <4>2, ProgressType
    <3>2. CASE trans[s].who \notin Local
      BY <1>7, <3>2 DEF CommitLike, TypeOK
    <3>3. QED BY <3>1, <3>2
  <2>4. mark' \in [Local -> 0..Posted]
    BY <1>7, <1>z DEF CommitLike, TypeOK
  <2>5. ASSUME NEW u \in Local, vote'[u] = 0 PROVE mark'[u] = 0
    <3>1. CASE u = trans[s].who
      BY <1>7, <3>1 DEF CommitLike, TypeOK
    <3>2. CASE u # trans[s].who
      <4>1. vote'[u] = vote[u]
        BY <2>1, <3>2, <1>l DEF Close, Seen, TypeOK
      <4>2. mark'[u] = mark[u]
        BY <1>7, <3>2 DEF CommitLike, TypeOK
      <4>3. QED BY <2>5, <4>1, <4>2 DEF TypeOK
    <3>3. QED BY <3>1, <3>2
  <2>6. QED BY <1>7, <2>2, <2>3, <2>4, <2>5 DEF CommitLike, TypeOK
<1>8. ASSUME NEW s \in Slots, CommitUnlike(s) PROVE TypeOK'
  <2>1. Close(s, "unlike")
    BY <1>8 DEF CommitUnlike
  <2>2. /\ trans' \in [Slots -> Transactions \cup {Closed}]
        /\ score' \in Nat
        /\ vote' \in [Voters -> 0..MaxVotes]
    BY <2>1, CloseType
  <2>3. mark' \in [Local -> 0..Posted]
    BY <1>8, <1>z DEF CommitUnlike, TypeOK
  <2>4. ASSUME NEW u \in Local, vote'[u] = 0 PROVE mark'[u] = 0
    <3>1. CASE u = trans[s].who
      BY <1>8, <3>1 DEF CommitUnlike, TypeOK
    <3>2. CASE u # trans[s].who
      <4>1. vote'[u] = vote[u]
        BY <2>1, <3>2, <1>l DEF Close, Seen, TypeOK
      <4>2. mark'[u] = mark[u]
        BY <1>8, <3>2 DEF CommitUnlike, TypeOK
      <4>3. QED BY <2>4, <4>1, <4>2 DEF TypeOK
    <3>3. QED BY <3>1, <3>2
  <2>5. undone' \in [Local -> SUBSET Ids]
    <3>1. trans[s].id \in Ids
      BY <2>1 DEF Close, Grounded
    <3>2. QED BY <1>8, <3>1 DEF CommitUnlike, TypeOK
  <2>6. QED BY <1>8, <2>2, <2>3, <2>4, <2>5 DEF CommitUnlike, TypeOK
<1>9. ASSUME NEW s \in Slots, CommitUndo(s) PROVE TypeOK'
  <2>1. Close(s, "undo")
    BY <1>9 DEF CommitUndo
  <2>2. /\ trans' \in [Slots -> Transactions \cup {Closed}]
        /\ score' \in Nat
        /\ vote' \in [Voters -> 0..MaxVotes]
    BY <2>1, CloseType
  <2>3. mark' \in [Local -> 0..Posted]
    BY <1>9, <1>z DEF CommitUndo, TypeOK
  <2>4. ASSUME NEW u \in Local, vote'[u] = 0 PROVE mark'[u] = 0
    <3>1. CASE u = trans[s].who
      BY <1>9, <3>1 DEF CommitUndo, TypeOK
    <3>2. CASE u # trans[s].who
      <4>1. vote'[u] = vote[u]
        BY <2>1, <3>2, <1>l DEF Close, Seen, TypeOK
      <4>2. mark'[u] = mark[u]
        BY <1>9, <3>2 DEF CommitUndo, TypeOK
      <4>3. QED BY <2>4, <4>1, <4>2 DEF TypeOK
    <3>3. QED BY <3>1, <3>2
  <2>5. QED BY <1>9, <2>2, <2>3, <2>4 DEF CommitUndo, TypeOK
<1>10. ASSUME NEW s \in Slots, NEW kind, WriteCount(s, kind) PROVE TypeOK'
  <2>1. trans[s].n \in Nat
    BY <1>10, InSlot DEF WriteCount, Applies, Transactions
  <2>2. trans' \in [Slots -> Transactions \cup {Closed}]
    BY <1>10, SlotWritten DEF WriteCount
  <2>3. QED BY <1>10, <2>1, <2>2 DEF WriteCount, TypeOK
<1>11. ASSUME NEW s \in Slots, ApplyLikes(s) PROVE TypeOK'
  <2> DEFINE removed == {p \in Peers : <<p, vote[p]>> \in trans[s].doomed /\ Quiet(p)}
  <2>1. vote' = [v \in Voters |-> IF v \in removed THEN 0 ELSE vote[v]]
    BY <1>11 DEF ApplyLikes
  <2>2. vote' \in [Voters -> 0..MaxVotes]
    <3>1. \A v \in Voters : vote[v] \in 0..MaxVotes
      BY DEF TypeOK
    <3> HIDE DEF removed
    <3>2. QED BY <2>1, <3>1, <1>z
  <2>3. \A u \in Local : vote'[u] = vote[u]
    BY <2>1, <1>l, VoterAssumption
  <2>4. trans[s].n \in Nat
    BY <1>11, InSlot DEF ApplyLikes, Applies, Transactions
  <2>5. score' \in Nat
    BY <1>11, <2>4 DEF ApplyLikes, TypeOK
  <2>6. trans' \in [Slots -> Transactions \cup {Closed}]
    BY <1>11, SlotWritten DEF ApplyLikes
  <2>7. QED BY <1>11, <2>2, <2>3, <2>5, <2>6 DEF ApplyLikes, TypeOK
<1>12. ASSUME NEW s \in Slots, ApplyPosts(s) PROVE TypeOK'
  <2>1. CASE \A i \in Slots : trans[i] # Closed => trans[i].kind # "like"
    BY <1>12, <2>1, <1>z DEF ApplyPosts, TypeOK
  <2>2. CASE ~ \A i \in Slots : trans[i] # Closed => trans[i].kind # "like"
    <3>1. trans' \in [Slots -> Transactions \cup {Closed}]
      BY <1>12, <2>2, SlotWritten DEF ApplyPosts
    <3>2. QED BY <1>12, <2>2, <3>1 DEF ApplyPosts, TypeOK
  <2>3. QED BY <2>1, <2>2
<1>13. ASSUME NEW s \in Slots, ScanRecount(s) PROVE TypeOK'
  <2>1. trans' \in [Slots -> Transactions \cup {Closed}]
    BY <1>13, CountedIsNat, ScanType DEF ScanRecount
  <2>2. QED BY <1>13, <2>1 DEF ScanRecount, Scan, TypeOK
<1>14. ASSUME NEW s \in Slots, ScanLikes(s) PROVE TypeOK'
  <2> DEFINE old == {p \in Peers : vote[p] # 0}
  <2>1. {<<p, vote[p]>> : p \in old} \in SUBSET (Peers \X Ids)
    <3>1. \A p \in Peers : vote[p] \in 0..MaxVotes
      BY DEF TypeOK, Voters
    <3>2. \A p \in old : p \in Peers /\ vote[p] \in 1..MaxVotes
      BY <3>1
    <3>3. QED BY <3>2
  <2>2. trans' \in [Slots -> Transactions \cup {Closed}]
    <3> HIDE DEF old
    <3>1. Scan(s, "likes", Counted(vote), {<<p, vote[p]>> : p \in old})
      BY <1>14 DEF ScanLikes, old
    <3>2. QED BY <2>1, <3>1, CountedIsNat, ScanType
  <2>3. QED BY <1>14, <2>2 DEF ScanLikes, Scan, TypeOK
<1>15. ASSUME NEW s \in Slots, ScanPosts(s) PROVE TypeOK'
  <2>1. trans' \in [Slots -> Transactions \cup {Closed}]
    BY <1>15, ScanType DEF ScanPosts
  <2>2. QED BY <1>15, <2>1 DEF ScanPosts, Scan, TypeOK
<1>16. ASSUME NEW s \in Slots, NEW total \in 0..MaxTotal, ScanReport(s, total) PROVE TypeOK'
  <2>1. Larger(Counted(vote), total) \in Nat
    BY CountedIsNat, BoundAssumption DEF Larger
  <2>2. trans' \in [Slots -> Transactions \cup {Closed}]
    BY <1>16, <2>1, ScanType DEF ScanReport
  <2>3. QED BY <1>16, <1>a, <2>2 DEF ScanReport, Scan, TypeOK
<1>17. CASE DeletePost
  BY <1>17 DEF DeletePost, TypeOK
<1>18. ASSUME NEW p \in Peers, BlockVote(p) PROVE TypeOK'
  <2>1. vote' \in [Voters -> 0..MaxVotes]
    BY <1>18, <1>z DEF BlockVote, TypeOK
  <2>2. \A u \in Local : vote'[u] = vote[u]
    BY <1>18, <1>l, VoterAssumption DEF BlockVote, TypeOK
  <2>3. QED BY <1>18, <2>1, <2>2 DEF BlockVote, TypeOK
<1>19. ASSUME NEW u \in Local, NEW id \in Ids, Delivery(u, id) PROVE TypeOK'
  <2>1. CASE StartDelivery(u, id)
    BY ProgressType, <2>1, MarkType DEF StartDelivery, TypeOK, Sent, Posted
  <2>2. CASE Answered(u, id)
    BY ProgressType, <2>2 DEF Answered, TypeOK
  <2>3. CASE Unanswered(u, id)
    BY ProgressType, <2>3 DEF Unanswered, TypeOK
  <2>4. CASE FinishDelivery(u, id)
    BY ProgressType, <2>4, MarkType DEF FinishDelivery, TypeOK, Received, Posted
  <2>5. CASE Echo(u, id)
    BY <2>5, MarkType DEF Echo, TypeOK, Posted
  <2>6. QED BY <1>19, <2>1, <2>2, <2>3, <2>4, <2>5 DEF Delivery
<1>20. CASE UNCHANGED vars
  BY <1>20 DEF vars, TypeOK
<1>21. QED
  BY <1>1, <1>2, <1>3, <1>4, <1>5, <1>6, <1>7, <1>8, <1>9, <1>10, <1>11, <1>12, <1>13, <1>14,
     <1>15, <1>16, <1>17, <1>18, <1>19, <1>20
  DEF Next, Transaction, Proceed, ApplyReport, ApplyRecount

-----------------------------------------------------------------------------
\* A step that changes neither the votes of local users, nor what is known of
\* their Likes, nor what a transaction set out to do.
LEMMA Frame ==
  ASSUME AccountedInv,
         post' = "gone" <=> post = "gone",
         \A u \in Local : vote'[u] = vote[u],
         \A u \in Local, id \in Ids : act'[u][id] = "none" <=> act[u][id] = "none",
         undone' = undone, used' = used,
         \A s \in Slots :
           \/ trans'[s] = Closed
           \/ ~ByVoter(trans'[s])
           \/ /\ trans[s] # Closed
              /\ trans'[s].kind = trans[s].kind
              /\ trans'[s].who = trans[s].who
              /\ trans'[s].id = trans[s].id
  PROVE  VotesAccounted' /\ Grounded' /\ Alone' /\ Fresh'
<1>1. VotesAccounted'
  BY DEF AccountedInv, VotesAccounted
<1>2. ASSUME NEW s \in Slots, trans'[s] # Closed, ByVoter(trans'[s])
      PROVE  /\ trans[s] # Closed /\ ByVoter(trans[s])
             /\ trans'[s].kind = trans[s].kind
             /\ trans'[s].who = trans[s].who
             /\ trans'[s].id = trans[s].id
  BY <1>2 DEF ByVoter
<1>3. Grounded'
  <2> SUFFICES ASSUME NEW s \in Slots, trans'[s] # Closed
               PROVE  /\ ByVoter(trans'[s]) => trans'[s].who \in Voters
                      /\ trans'[s].kind = "like" => trans'[s].id \in Ids
                      /\ trans'[s].kind = "like" /\ trans'[s].who \in Local =>
                           /\ vote'[trans'[s].who] = 0
                           /\ trans'[s].id \in 1..used'[trans'[s].who]
                           /\ act'[trans'[s].who][trans'[s].id] = "none"
                           /\ trans'[s].id \notin undone'[trans'[s].who]
                      /\ trans'[s].kind = "unlike" =>
                           /\ trans'[s].who \in Local
                           /\ trans'[s].id \in Ids
                           /\ vote'[trans'[s].who] = trans'[s].id
                      /\ trans'[s].kind = "undo" => trans'[s].who \in Peers
    BY DEF Grounded, ByVoter
  <2>1. CASE ~ByVoter(trans'[s])
    BY <2>1 DEF ByVoter
  <2>2. CASE ByVoter(trans'[s])
    <3>1. /\ trans[s] # Closed /\ ByVoter(trans[s])
          /\ trans'[s].kind = trans[s].kind
          /\ trans'[s].who = trans[s].who
          /\ trans'[s].id = trans[s].id
      BY <1>2, <2>2
    <3>2. QED BY <3>1 DEF AccountedInv, Grounded
  <2>3. QED BY <2>1, <2>2
<1>4. Alone'
  BY <1>2 DEF AccountedInv, Alone
<1>5. Fresh'
  BY DEF AccountedInv, Fresh
<1>6. QED BY <1>1, <1>3, <1>4, <1>5

\* Freeing a slot, and a statement in it, are such changes.
LEMMA FreedSlot ==
  ASSUME TypeOK, NEW s \in Slots, NEW t, t = Closed \/ ~ByVoter(t),
         trans' = [trans EXCEPT ![s] = t]
  PROVE  \A i \in Slots :
           \/ trans'[i] = Closed
           \/ ~ByVoter(trans'[i])
           \/ /\ trans[i] # Closed
              /\ trans'[i].kind = trans[i].kind
              /\ trans'[i].who = trans[i].who
              /\ trans'[i].id = trans[i].id
<1> TAKE i \in Slots
<1>1. CASE i = s
  BY <1>1 DEF TypeOK
<1>2. CASE i # s
  BY <1>2 DEF TypeOK
<1>3. QED BY <1>1, <1>2

\* A transaction begins only when no other of its voter is open.
LEMMA OpenAlone ==
  ASSUME AccountedInv, NEW s \in Slots, NEW kind, NEW v, NEW id, Open(s, kind, v, id)
  PROVE  Alone'
<1>1. trans' = [trans EXCEPT ![s] = Begun(kind, v, id)] /\ Quiet(v)
  BY DEF Open
<1>2. Begun(kind, v, id).who = v
  BY DEF Begun
<1>3. trans'[s].who = v /\ \A i \in Slots : i # s => trans'[i] = trans[i]
  BY <1>1, <1>2 DEF AccountedInv, TypeOK
<1>4. SUFFICES ASSUME NEW q \in Slots, NEW r \in Slots, q # r, trans'[q] # Closed, trans'[r] # Closed,
                      ByVoter(trans'[q]), ByVoter(trans'[r])
               PROVE  trans'[q].who # trans'[r].who
  BY DEF Alone, ByVoter
<1>5. CASE q = s
  BY <1>1, <1>3, <1>4, <1>5 DEF Quiet
<1>6. CASE r = s
  BY <1>1, <1>3, <1>4, <1>6 DEF Quiet
<1>7. CASE q # s /\ r # s
  BY <1>3, <1>4, <1>7 DEF AccountedInv, Alone
<1>8. QED BY <1>5, <1>6, <1>7

\* After it has begun, the slots are grounded if its own is.
LEMMA OpenGrounded ==
  ASSUME AccountedInv, NEW s \in Slots, NEW kind \in {"like", "unlike", "undo"}, NEW v \in Voters,
         NEW id \in Ids, Open(s, kind, v, id),
         vote' = vote, act' = act, undone' = undone,
         \A u \in Local : used'[u] \in Nat /\ used[u] =< used'[u],
         kind = "like" /\ v \in Local =>
           /\ id \in 1..used'[v]
           /\ act[v][id] = "none"
           /\ id \notin undone[v],
         kind = "unlike" => v \in Local,
         kind = "undo" => v \in Peers
  PROVE  Grounded'
<1>1. /\ Begun(kind, v, id).who = v
      /\ Begun(kind, v, id).kind = kind
      /\ Begun(kind, v, id).id = id
  BY DEF Begun
<1>2. /\ trans'[s] = Begun(kind, v, id)
      /\ \A i \in Slots : i # s => trans'[i] = trans[i]
  BY DEF Open, AccountedInv, TypeOK
<1>3. IF kind = "like" THEN vote[v] = 0 ELSE vote[v] = id
  BY DEF Open
<1> SUFFICES ASSUME NEW i \in Slots, trans'[i] # Closed
             PROVE  /\ ByVoter(trans'[i]) => trans'[i].who \in Voters
                    /\ trans'[i].kind = "like" => trans'[i].id \in Ids
                    /\ trans'[i].kind = "like" /\ trans'[i].who \in Local =>
                         /\ vote'[trans'[i].who] = 0
                         /\ trans'[i].id \in 1..used'[trans'[i].who]
                         /\ act'[trans'[i].who][trans'[i].id] = "none"
                         /\ trans'[i].id \notin undone'[trans'[i].who]
                    /\ trans'[i].kind = "unlike" =>
                         /\ trans'[i].who \in Local
                         /\ trans'[i].id \in Ids
                         /\ vote'[trans'[i].who] = trans'[i].id
                    /\ trans'[i].kind = "undo" => trans'[i].who \in Peers
  BY DEF Grounded, ByVoter
<1>4. CASE i = s
  <2>1. trans'[i].who = v /\ trans'[i].kind = kind /\ trans'[i].id = id
    BY <1>1, <1>2, <1>4
  <2>2. QED BY <1>3, <2>1
<1>5. CASE i # s
  <2>1. trans'[i] = trans[i]
    BY <1>2, <1>5
  <2>2. trans[i].kind = "like" /\ trans[i].who \in Local =>
          /\ vote[trans[i].who] = 0
          /\ trans[i].id \in 1..used[trans[i].who]
          /\ act[trans[i].who][trans[i].id] = "none"
          /\ trans[i].id \notin undone[trans[i].who]
    BY <2>1 DEF AccountedInv, Grounded
  <2>3. trans[i].kind = "like" /\ trans[i].who \in Local => trans[i].id \in 1..used'[trans[i].who]
    BY <2>2 DEF AccountedInv, TypeOK
  <2>4. QED BY <2>1, <2>2, <2>3 DEF AccountedInv, Grounded
<1>6. QED BY <1>4, <1>5

\* What a commit does to the votes of local users.
LEMMA Committed ==
  ASSUME AccountedInv, NEW s \in Slots, NEW what, Close(s, what)
  PROVE  /\ trans'[s] = Closed
         /\ \A i \in Slots : i # s => trans'[i] = trans[i]
         /\ \A v \in Voters : v # trans[s].who => vote'[v] = vote[v]
         /\ trans[s].who \in Voters =>
              vote'[trans[s].who] = IF what = "like" THEN trans[s].id ELSE 0
  BY DEF Close, Seen, AccountedInv, TypeOK

\* No other slot is about to do something about the voter of a commit.
LEMMA OthersUntouched ==
  ASSUME AccountedInv, NEW s \in Slots, trans[s] # Closed, ByVoter(trans[s]),
         trans'[s] = Closed, \A i \in Slots : i # s => trans'[i] = trans[i],
         \A u \in Local : u # trans[s].who =>
           vote'[u] = vote[u] /\ act'[u] = act[u] /\ undone'[u] = undone[u],
         used' = used
  PROVE  Grounded' /\ Alone'
<1>1. Alone'
  BY DEF AccountedInv, Alone, ByVoter
<1>2. Grounded'
  <2> SUFFICES ASSUME NEW i \in Slots, trans'[i] # Closed
               PROVE  /\ ByVoter(trans'[i]) => trans'[i].who \in Voters
                      /\ trans'[i].kind = "like" => trans'[i].id \in Ids
                      /\ trans'[i].kind = "like" /\ trans'[i].who \in Local =>
                           /\ vote'[trans'[i].who] = 0
                           /\ trans'[i].id \in 1..used'[trans'[i].who]
                           /\ act'[trans'[i].who][trans'[i].id] = "none"
                           /\ trans'[i].id \notin undone'[trans'[i].who]
                      /\ trans'[i].kind = "unlike" =>
                           /\ trans'[i].who \in Local
                           /\ trans'[i].id \in Ids
                           /\ vote'[trans'[i].who] = trans'[i].id
                      /\ trans'[i].kind = "undo" => trans'[i].who \in Peers
    BY DEF Grounded, ByVoter
  <2>1. i # s /\ trans'[i] = trans[i] /\ trans[i] # Closed
    OBVIOUS
  <2>2. CASE ~ByVoter(trans[i])
    BY <2>1, <2>2 DEF ByVoter
  <2>3. CASE ByVoter(trans[i])
    <3>1. trans[i].who # trans[s].who
      BY <2>1, <2>3 DEF AccountedInv, Alone
    <3>2. QED BY <2>1, <3>1 DEF AccountedInv, Grounded
  <2>4. QED BY <2>2, <2>3
<1>3. QED BY <1>1, <1>2

\* Every step keeps the votes of local users accounted for.
LEMMA AccountedStep ==
  AccountedInv /\ [Next]_vars => VotesAccounted' /\ Grounded' /\ Alone' /\ Fresh'
<1> SUFFICES ASSUME AccountedInv, [Next]_vars
             PROVE  VotesAccounted' /\ Grounded' /\ Alone' /\ Fresh'
  OBVIOUS
<1> DEFINE Goal == VotesAccounted' /\ Grounded' /\ Alone' /\ Fresh'
<1>t. TypeOK /\ VotesAccounted /\ Grounded /\ Fresh
  BY DEF AccountedInv
<1>l. \A u \in Local : u \in Voters /\ u \notin Peers
  BY VoterAssumption DEF Voters
<1>r. \A u \in Local : used[u] \in Nat
  BY <1>t DEF TypeOK
<1>1. ASSUME NEW s \in Slots, NEW u \in Local, OpenLike(s, u) PROVE Goal
  <2>1. /\ used[u] + 1 \in Ids
        /\ Open(s, "like", u, used[u] + 1)
    BY <1>1, <1>t, BoundAssumption DEF OpenLike, FreshId, TypeOK, Ids
  <2>2. /\ used' = [used EXCEPT ![u] = @ + 1]
        /\ vote' = vote /\ act' = act /\ undone' = undone /\ post' = post
    BY <1>1 DEF OpenLike
  <2>3. \A w \in Local : used'[w] \in Nat /\ used[w] =< used'[w]
    BY <2>2, <1>t DEF TypeOK
  <2>4. used'[u] = used[u] + 1
    BY <2>2, <1>t DEF TypeOK
  <2>5. act[u][used[u] + 1] = "none" /\ used[u] + 1 \notin undone[u]
    BY <2>1, <1>t, <1>r DEF Fresh
  <2>6. used[u] + 1 \in 1..used'[u]
    BY <2>4, <1>r
  <2>7. Grounded'
    BY <2>1, <2>2, <2>3, <2>5, <2>6, <1>l, OpenGrounded
  <2>8. Alone'
    BY <2>1, OpenAlone
  <2>9. Fresh'
    <3> SUFFICES ASSUME NEW w \in Local, NEW id \in Ids, id > used'[w]
                 PROVE  vote[w] # id /\ act[w][id] = "none" /\ id \notin undone[w]
      BY <2>2 DEF Fresh
    <3>1. id > used[w]
      BY <2>3, <1>r DEF Ids
    <3>2. QED BY <3>1, <1>t DEF Fresh
  <2>10. VotesAccounted'
    BY <2>2, <1>t DEF VotesAccounted
  <2>11. QED BY <2>7, <2>8, <2>9, <2>10
<1>2. ASSUME NEW s \in Slots, NEW kind \in {"like", "unlike", "undo"}, NEW v \in Voters, NEW id \in Ids,
             Open(s, kind, v, id), UNCHANGED <<post, vote, act, undone, used>>,
             kind = "like" => v \in Peers, kind = "unlike" => v \in Local, kind = "undo" => v \in Peers
      PROVE  Goal
  <2>1. \A u \in Local : used'[u] \in Nat /\ used[u] =< used'[u]
    BY <1>2, <1>r
  <2>2. Grounded'
    BY <1>2, <2>1, <1>l, OpenGrounded
  <2>3. Alone'
    BY <1>2, OpenAlone
  <2>4. VotesAccounted' /\ Fresh'
    BY <1>2, <1>t DEF VotesAccounted, Fresh
  <2>5. QED BY <2>2, <2>3, <2>4
<1>3. ASSUME NEW s \in Slots, NEW u \in Local, OpenUnlike(s, u) PROVE Goal
  <2>1. vote[u] \in Ids
    BY <1>3, <1>t, <1>l, BoundAssumption DEF OpenUnlike, TypeOK, Ids
  <2>2. QED BY <1>3, <2>1, <1>l, <1>2 DEF OpenUnlike
<1>4. ASSUME NEW s \in Slots, NEW id \in Ids, NEW p \in Peers, OpenRemoteLike(s, p, id) PROVE Goal
  <2>1. p \in Voters
    BY DEF Voters
  <2>2. QED BY <1>4, <2>1, <1>2 DEF OpenRemoteLike
<1>5. ASSUME NEW s \in Slots, NEW id \in Ids, NEW v \in Voters, OpenRemoteUndo(s, v, id) PROVE Goal
  <2>1. v \in Peers
    <3>1. SUFFICES ASSUME v \in Local PROVE FALSE
      BY DEF Voters
    <3>2. id \in undone[v] /\ vote[v] = id /\ post # "gone"
      BY <1>5, <3>1 DEF OpenRemoteUndo, Open
    <3>3. QED BY <3>1, <3>2, <1>t DEF VotesAccounted
  <2>2. QED BY <1>5, <2>1, <1>2 DEF OpenRemoteUndo
<1>6. ASSUME NEW s \in Slots, NEW t, t = Closed \/ ~ByVoter(t), trans' = [trans EXCEPT ![s] = t],
             UNCHANGED <<post, act, undone, used>>, \A u \in Local : vote'[u] = vote[u]
      PROVE  Goal
  BY <1>6, <1>t, Frame, FreedSlot
<1>7. ASSUME NEW s \in Slots, Abort(s) PROVE Goal
  BY <1>6, <1>7 DEF Abort
<1>8. ASSUME NEW s \in Slots, Recount(s) PROVE Goal
  <2>1. trans[s] # Closed
    BY <1>8 DEF Recount, Closed
  <2>2. trans[s] \in Transactions
    BY <2>1, <1>t, InSlot
  <2>3. PICK n : trans' = [trans EXCEPT ![s] = [trans[s] EXCEPT !.pc = "counted", !.n = n]]
    BY <1>8 DEF Recount
  <2>4. /\ trans'[s].kind = trans[s].kind
        /\ trans'[s].who = trans[s].who
        /\ trans'[s].id = trans[s].id
        /\ \A i \in Slots : i # s => trans'[i] = trans[i]
    BY <2>2, <2>3, <1>t DEF TypeOK, Transactions
  <2>5. UNCHANGED <<post, vote, act, undone, used>>
    BY <1>8 DEF Recount
  <2>6. QED BY <2>1, <2>4, <2>5, Frame
<1>9. ASSUME NEW s \in Slots, CommitLike(s) PROVE Goal
  <2>1. Close(s, "like") /\ trans[s] # Closed /\ trans[s].kind = "like" /\ ByVoter(trans[s])
    BY <1>9 DEF CommitLike, Close, ByVoter
  <2>2. trans[s].who \in Voters /\ trans[s].id \in Ids
    BY <2>1, <1>t DEF Grounded
  <2>3. /\ trans'[s] = Closed
        /\ \A i \in Slots : i # s => trans'[i] = trans[i]
        /\ \A v \in Voters : v # trans[s].who => vote'[v] = vote[v]
        /\ vote'[trans[s].who] = trans[s].id
    BY <2>1, <2>2, Committed
  <2>4. post' = post /\ used' = used /\ undone' = undone
    BY <1>9 DEF CommitLike
  <2>5. CASE trans[s].who \in Local
    <3> DEFINE u == trans[s].who
               j == trans[s].id
    <3>1. /\ vote[u] = 0 /\ j \in 1..used[u] /\ act[u][j] = "none" /\ j \notin undone[u]
      BY <2>1, <2>5, <1>t DEF Grounded
    <3>2. act' = [act EXCEPT ![u][j] = "due"]
      BY <1>9, <2>5 DEF CommitLike
    <3>x. u \in Local /\ j \in Ids /\ vote'[u] = j /\ \A v \in Voters : v # u => vote'[v] = vote[v]
      BY <2>2, <2>3, <2>5
    <3> HIDE DEF u, j
    <3>3. /\ act'[u][j] = "due"
          /\ \A id \in Ids : id # j => act'[u][id] = act[u][id]
          /\ \A w \in Local : w # u => act'[w] = act[w]
      BY <3>2, <3>x, <1>t DEF TypeOK
    <3>4. Grounded' /\ Alone'
      BY <2>1, <2>3, <2>4, <3>3, <1>l, OthersUntouched DEF u
    <3>5. Fresh'
      BY <2>4, <3>1, <3>3, <3>x, <1>t, <1>r, <1>l DEF Fresh, Ids
    <3>6. VotesAccounted'
      <4> SUFFICES ASSUME post # "gone", NEW w \in Local, NEW id \in Ids
                   PROVE  /\ act'[w][id] # "none" <=> vote'[w] = id \/ id \in undone[w]
                          /\ ~(vote'[w] = id /\ id \in undone[w])
        BY <2>4 DEF VotesAccounted
      <4>0. /\ act[w][id] # "none" <=> vote[w] = id \/ id \in undone[w]
            /\ ~(vote[w] = id /\ id \in undone[w])
        BY <1>t DEF VotesAccounted
      <4>1. CASE w # u
        BY <4>0, <4>1, <3>3, <3>x, <1>l
      <4>2. CASE w = u /\ id = j
        BY <4>2, <3>1, <3>3, <3>x
      <4>3. CASE w = u /\ id # j
        <5>1. vote[w] # id
          BY <4>3, <3>1 DEF Ids
        <5>2. act'[w][id] = act[w][id] /\ vote'[w] # id
          BY <4>3, <3>3, <3>x
        <5>3. QED BY <4>0, <5>1, <5>2
      <4>4. QED BY <4>1, <4>2, <4>3
    <3>7. QED BY <3>4, <3>5, <3>6
  <2>6. CASE trans[s].who \notin Local
    <3>1. act' = act
      BY <1>9, <2>6 DEF CommitLike
    <3>2. \A u \in Local : vote'[u] = vote[u]
      BY <2>3, <2>6, <1>l
    <3>3. QED BY <2>1, <2>3, <2>4, <3>1, <3>2, <1>6 DEF Close
  <2>7. QED BY <2>5, <2>6
<1>10. ASSUME NEW s \in Slots, CommitUnlike(s) PROVE Goal
  <2>1. Close(s, "unlike") /\ trans[s] # Closed /\ trans[s].kind = "unlike" /\ ByVoter(trans[s])
    BY <1>10 DEF CommitUnlike, Close, ByVoter
  <2> DEFINE u == trans[s].who
             j == trans[s].id
  <2>2. u \in Local /\ j \in Ids /\ vote[u] = j
    BY <2>1, <1>t DEF Grounded
  <2>3. /\ trans'[s] = Closed
        /\ \A i \in Slots : i # s => trans'[i] = trans[i]
        /\ \A v \in Voters : v # u => vote'[v] = vote[v]
        /\ vote'[u] = 0
    BY <2>1, <2>2, <1>l, Committed
  <2>4. post' = post /\ used' = used /\ act' = act /\ undone' = [undone EXCEPT ![u] = @ \cup {j}]
    BY <1>10 DEF CommitUnlike
  <2> HIDE DEF u, j
  <2>5. undone'[u] = undone[u] \cup {j} /\ \A w \in Local : w # u => undone'[w] = undone[w]
    BY <2>2, <2>4, <1>t DEF TypeOK
  <2>6. Grounded' /\ Alone'
    BY <2>1, <2>3, <2>4, <2>5, <1>l, OthersUntouched DEF u
  <2>7. post # "gone" => act[u][j] # "none" /\ j \notin undone[u]
    BY <2>2, <1>t DEF VotesAccounted
  <2>8. j =< used[u]
    BY <2>2, <1>t, <1>r DEF Fresh, Ids
  <2>9. Fresh'
    BY <2>2, <2>3, <2>4, <2>5, <2>8, <1>t, <1>r, <1>l DEF Fresh, Ids
  <2>10. VotesAccounted'
    <3> SUFFICES ASSUME post # "gone", NEW w \in Local, NEW id \in Ids
                 PROVE  /\ act[w][id] # "none" <=> vote'[w] = id \/ id \in undone'[w]
                        /\ ~(vote'[w] = id /\ id \in undone'[w])
      BY <2>4 DEF VotesAccounted
    <3>0. /\ act[w][id] # "none" <=> vote[w] = id \/ id \in undone[w]
          /\ ~(vote[w] = id /\ id \in undone[w])
      BY <1>t DEF VotesAccounted
    <3>1. CASE w # u
      BY <3>0, <3>1, <2>3, <2>5, <1>l
    <3>2. CASE w = u
      <4>1. vote'[w] # id
        BY <3>2, <2>3 DEF Ids
      <4>2. QED BY <3>0, <3>2, <4>1, <2>2, <2>5
    <3>3. QED BY <3>1, <3>2
  <2>11. QED BY <2>6, <2>9, <2>10
<1>11. ASSUME NEW s \in Slots, CommitUndo(s) PROVE Goal
  <2>1. Close(s, "undo") /\ trans[s] # Closed /\ trans[s].kind = "undo"
    BY <1>11 DEF CommitUndo, Close
  <2>2. trans[s].who \in Peers
    BY <2>1, <1>t DEF Grounded
  <2>3. \A u \in Local : vote'[u] = vote[u]
    BY <2>1, <2>2, <1>l, Committed
  <2>4. UNCHANGED <<post, act, undone, used>>
    BY <1>11 DEF CommitUndo
  <2>5. QED BY <2>1, <2>3, <2>4, <1>6 DEF Close
<1>12. ASSUME NEW s \in Slots, NEW kind, WriteCount(s, kind) PROVE Goal
  BY <1>6, <1>12 DEF WriteCount
<1>13. ASSUME NEW s \in Slots, ApplyLikes(s) PROVE Goal
  <2>1. \A u \in Local : vote'[u] = vote[u]
    BY <1>13, <1>l DEF ApplyLikes
  <2>2. QED BY <1>6, <1>13, <2>1 DEF ApplyLikes
<1>14. ASSUME NEW s \in Slots, ApplyPosts(s) PROVE Goal
  <2>1. CASE \A i \in Slots : trans[i] # Closed => trans[i].kind # "like"
    <3>1. /\ post' = "gone" /\ trans' = [i \in Slots |-> Closed]
          /\ vote' = [v \in Voters |-> 0]
          /\ UNCHANGED <<act, undone, used>>
      BY <1>14, <2>1 DEF ApplyPosts
    <3>2. VotesAccounted'
      BY <3>1 DEF VotesAccounted
    <3>3. Grounded' /\ Alone'
      BY <3>1 DEF Grounded, Alone
    <3>4. Fresh'
      BY <3>1, <1>t, <1>l DEF Fresh, Ids
    <3>5. QED BY <3>2, <3>3, <3>4
  <2>2. CASE ~ \A i \in Slots : trans[i] # Closed => trans[i].kind # "like"
    BY <1>6, <1>14, <2>2 DEF ApplyPosts
  <2>3. QED BY <2>1, <2>2
<1>15. ASSUME NEW s \in Slots, NEW kind \in {"report", "recount", "likes", "posts"}, NEW n, NEW doomed,
              Scan(s, kind, n, doomed)
       PROVE  Goal
  <2>1. ~ByVoter(Statement(kind, n, doomed))
    BY DEF Statement, ByVoter
  <2>2. QED BY <1>6, <1>15, <2>1 DEF Scan
<1>16. ASSUME NEW p \in Peers, BlockVote(p) PROVE Goal
  <2>1. \A u \in Local : vote'[u] = vote[u]
    BY <1>16, <1>l, <1>t DEF BlockVote, TypeOK
  <2>2. UNCHANGED <<trans, post, act, undone, used>>
    BY <1>16 DEF BlockVote
  <2>3. QED BY <2>1, <2>2, Frame
<1>17. CASE DeletePost
  BY <1>17, Frame DEF DeletePost
<1>18. ASSUME NEW u \in Local, NEW id \in Ids, Delivery(u, id) PROVE Goal
  <2>1. \A w \in Local, i \in Ids : act'[w][i] = "none" <=> act[w][i] = "none"
    <3>1. ASSUME NEW pc \in {"due", "marked", "posted"}, Progress(u, id, pc), act[u][id] # "none"
          PROVE  \A w \in Local, i \in Ids : act'[w][i] = "none" <=> act[w][i] = "none"
      <4>1. /\ act'[u][id] = pc
            /\ \A i \in Ids : i # id => act'[u][i] = act[u][i]
            /\ \A w \in Local : w # u => act'[w] = act[w]
        BY <3>1, <1>t DEF Progress, TypeOK
      <4>2. QED BY <3>1, <4>1
    <3>2. QED BY <1>18, <3>1 DEF Delivery, StartDelivery, Answered, Unanswered, FinishDelivery, Echo
  <2>2. UNCHANGED <<post, vote, trans, undone, used>>
    BY <1>18 DEF Delivery, StartDelivery, Answered, Unanswered, FinishDelivery, Echo
  <2>3. QED BY <2>1, <2>2, Frame
<1>19. CASE UNCHANGED vars
  BY <1>19, Frame DEF vars
<1>20. QED
  BY <1>1, <1>3, <1>4, <1>5, <1>7, <1>8, <1>9, <1>10, <1>11, <1>12, <1>13, <1>14, <1>15, <1>16,
     <1>17, <1>18, <1>19
  DEF Next, Transaction, Proceed, ApplyReport, ApplyRecount, ScanRecount, ScanLikes, ScanPosts, ScanReport

\* Every step keeps: a row shows no more than what a remote inbox took.
LEMMA ReceivedStep ==
  TypeOK /\ ReceivedWasTaken /\ PostedWasTaken /\ [Next]_vars => ReceivedWasTaken' /\ PostedWasTaken'
<1> SUFFICES ASSUME TypeOK, ReceivedWasTaken, PostedWasTaken, [Next]_vars
             PROVE  ReceivedWasTaken' /\ PostedWasTaken'
  OBVIOUS
<1> DEFINE Goal == ReceivedWasTaken' /\ PostedWasTaken'
\* Commits and statements reset marks, the former make a Like due, and nothing is forgotten.
<1>1. ASSUME taken \subseteq taken',
             \A u \in Local : mark'[u] = mark[u] \/ mark'[u] = 0,
             \A u \in Local, id \in Ids : act'[u][id] = "posted" => act[u][id] = "posted"
      PROVE  Goal
  <2>1. ReceivedWasTaken'
    BY <1>1 DEF ReceivedWasTaken, Received
  <2>2. PostedWasTaken'
    BY <1>1 DEF PostedWasTaken
  <2>3. QED BY <2>1, <2>2
<1>2. ASSUME NEW s \in Slots, Transaction(s) \/ ScanRecount(s) \/ ScanLikes(s) \/ ScanPosts(s)
             \/ (\E total \in 0..MaxTotal : ScanReport(s, total)) \/ Recount(s)
             \/ ApplyReport(s) \/ ApplyRecount(s) \/ ApplyLikes(s)
      PROVE  Goal
  <2>1. UNCHANGED <<mark, act, taken>>
    BY <1>2 DEF Transaction, OpenLike, OpenUnlike, OpenRemoteLike, OpenRemoteUndo, Abort, ScanRecount,
      ScanLikes, ScanPosts, ScanReport, Scan, Recount, ApplyReport, ApplyRecount, WriteCount, ApplyLikes
  <2>2. QED BY <1>1, <2>1
<1>3. ASSUME NEW s \in Slots, CommitLike(s) PROVE Goal
  <2>1. CASE trans[s].who \in Local
    <3> DEFINE u == trans[s].who
               j == trans[s].id
    <3>1. act' = [act EXCEPT ![u][j] = "due"] /\ mark' = [mark EXCEPT ![u] = 0] /\ taken' = taken
      BY <1>3, <2>1 DEF CommitLike
    <3>2. u \in Local
      BY <2>1
    <3> HIDE DEF u, j
    <3>3. \A w \in Local : mark'[w] = mark[w] \/ mark'[w] = 0
      BY <3>1, <3>2 DEF TypeOK
    <3>4. \A w \in Local, id \in Ids : act'[w][id] = "posted" => act[w][id] = "posted"
      BY <3>1, <3>2 DEF TypeOK
    <3>5. QED BY <1>1, <3>1, <3>3, <3>4
  <2>2. CASE trans[s].who \notin Local
    BY <1>1, <1>3, <2>2 DEF CommitLike
  <2>3. QED BY <2>1, <2>2
<1>4. ASSUME NEW s \in Slots, CommitUnlike(s) \/ CommitUndo(s) PROVE Goal
  <2>1. act' = act /\ taken' = taken
    BY <1>4 DEF CommitUnlike, CommitUndo
  <2>2. \A u \in Local : mark'[u] = mark[u] \/ mark'[u] = 0
    BY <1>4 DEF CommitUnlike, CommitUndo, TypeOK
  <2>3. QED BY <1>1, <2>1, <2>2
<1>5. ASSUME NEW s \in Slots, ApplyPosts(s) PROVE Goal
  BY <1>1, <1>5 DEF ApplyPosts
<1>6. ASSUME NEW p \in Peers, BlockVote(p) PROVE Goal
  BY <1>1, <1>6 DEF BlockVote
<1>7. ASSUME NEW u \in Local, NEW id \in Ids, Delivery(u, id) PROVE Goal
  <2>p. ASSUME NEW pc, Progress(u, id, pc), pc # "posted" \/ <<u, id>> \in taken', taken \subseteq taken'
        PROVE  PostedWasTaken'
    BY <2>p DEF Progress, PostedWasTaken, TypeOK
  <2>m. ASSUME NEW column \in {Sent, Received, Posted}, Mark(u, column),
               column = Sent \/ (\E i \in Ids : <<u, i>> \in taken), taken' = taken
        PROVE  ReceivedWasTaken'
    <3> SUFFICES ASSUME NEW w \in Local, mark'[w] >= Received PROVE \E i \in Ids : <<w, i>> \in taken
      BY <2>m DEF ReceivedWasTaken
    <3>1. CASE mark'[w] = mark[w]
      BY <3>1 DEF ReceivedWasTaken
    <3>2. CASE mark'[w] # mark[w]
      <4>1. w = u /\ mark'[w] = Larger(mark[w], column)
        BY <2>m, <3>2 DEF Mark, TypeOK
      <4>2. column # Sent \/ mark[w] >= Received
        BY <4>1 DEF Larger, Sent, Received
      <4>3. QED BY <2>m, <4>1, <4>2 DEF ReceivedWasTaken
    <3>3. QED BY <3>1, <3>2
  <2>1. CASE StartDelivery(u, id)
    BY <2>1, <2>p, <2>m DEF StartDelivery
  <2>2. CASE Answered(u, id)
    <3>1. PostedWasTaken'
      BY <2>2, <2>p DEF Answered
    <3>2. ReceivedWasTaken'
      BY <2>2 DEF Answered, ReceivedWasTaken
    <3>3. QED BY <3>1, <3>2
  <2>3. CASE Unanswered(u, id)
    <3>1. PostedWasTaken'
      BY <2>3, <2>p DEF Unanswered
    <3>2. ReceivedWasTaken'
      BY <2>3 DEF Unanswered, ReceivedWasTaken
    <3>3. QED BY <3>1, <3>2
  <2>4. CASE FinishDelivery(u, id)
    <3>1. <<u, id>> \in taken
      BY <2>4 DEF FinishDelivery, PostedWasTaken
    <3>2. QED BY <2>4, <3>1, <2>p, <2>m DEF FinishDelivery
  <2>5. CASE Echo(u, id)
    <3>1. ReceivedWasTaken'
      BY <2>5, <2>m DEF Echo
    <3>2. PostedWasTaken'
      BY <2>5 DEF Echo, PostedWasTaken
    <3>3. QED BY <3>1, <3>2
  <2>6. QED BY <1>7, <2>1, <2>2, <2>3, <2>4, <2>5 DEF Delivery
<1>8. CASE UNCHANGED vars
  BY <1>1, <1>8 DEF vars
<1>9. CASE DeletePost
  BY <1>1, <1>9 DEF DeletePost
<1>10. QED
  BY <1>2, <1>3, <1>4, <1>5, <1>6, <1>7, <1>8, <1>9 DEF Next, Proceed

-----------------------------------------------------------------------------
\* The initial state satisfies everything.
LEMMA InitHolds == Init => AccountedInv /\ ReceivedWasTaken /\ PostedWasTaken
<1> SUFFICES ASSUME Init PROVE AccountedInv /\ ReceivedWasTaken /\ PostedWasTaken
  OBVIOUS
<1>0. 0 \in 0..MaxVotes /\ 0 \in 0..MaxArrivals /\ 0 \in 0..Posted
  BY BoundAssumption DEF Posted
<1>1. vote \in [Voters -> 0..MaxVotes]
  <2>1. vote \in [Voters -> 0..1] /\ 0..1 \subseteq 0..MaxVotes
    BY BoundAssumption DEF Init
  <2>2. QED BY <2>1
<1>2. TypeOK
  BY <1>0, <1>1, CountedIsNat DEF Init, TypeOK
<1>3. VotesAccounted /\ Fresh
  BY DEF Init, VotesAccounted, Fresh, Ids
<1>4. Grounded /\ Alone
  BY DEF Init, Grounded, Alone
<1>5. ReceivedWasTaken /\ PostedWasTaken
  BY DEF Init, ReceivedWasTaken, PostedWasTaken, Received
<1>6. QED BY <1>2, <1>3, <1>4, <1>5 DEF AccountedInv

\* The strengthened invariant holds in every behaviour.
LEMMA Invariance == Spec => []AccountedInv
<1>1. Init => AccountedInv
  BY InitHolds
<1>2. AccountedInv /\ [Next]_vars => AccountedInv'
  BY TypeStep, AccountedStep DEF AccountedInv
<1>3. QED BY <1>1, <1>2, PTL DEF Spec

\* The tables of votes, marks, transactions and deliveries stay what they are
\* declared to be, and a user without a vote has no federation columns.
THEOREM TypeCorrect == Spec => []TypeOK
<1>1. AccountedInv => TypeOK
  BY DEF AccountedInv
<1>2. QED BY <1>1, Invariance, PTL

\* No vote of a local user vanishes and no Like is undone twice, for any number
\* of users, votes and open transactions.
THEOREM VotesStayAccounted == Spec => []VotesAccounted
<1>1. AccountedInv => VotesAccounted
  BY DEF AccountedInv
<1>2. QED BY <1>1, Invariance, PTL

\* A vote shows as received only if a remote inbox took a Like of that user.
THEOREM ReceivedIsTrue == Spec => []ReceivedWasTaken
<1>1. Init => ReceivedWasTaken /\ PostedWasTaken
  BY InitHolds
<1>2. ReceivedWasTaken /\ PostedWasTaken /\ TypeOK /\ [Next]_vars
        => (ReceivedWasTaken /\ PostedWasTaken)'
  BY ReceivedStep
<1>3. QED BY <1>1, <1>2, TypeCorrect, PTL DEF Spec

=============================================================================
