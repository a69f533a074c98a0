------------------------------ MODULE Threads ------------------------------
(***************************************************************************)
(* The tree of comments below a post, as the API serves it: a query for    *)
(* each level of replies, and tombstones without replies dropped afterwards*)
(* (src/src/routes/api/posts/replies.rs, src/src/routes/api/mod.rs,        *)
(* comments.rs).                                                           *)
(*                                                                         *)
(* Comments are numbered in the order of their creation, and sorted newest *)
(* first; the other sort orders change which of them come first.           *)
(***************************************************************************)
EXTENDS Integers, FiniteSets, Sequences

CONSTANTS
  MaxComments,  \* bound: comments ever written
  Depth,        \* levels of replies below the first
  PageLimits    \* page sizes a client asks for

ASSUME ThreadsAssumption == MaxComments \in Nat /\ Depth \in Nat /\ PageLimits \subseteq Nat

VARIABLES
  parentOf,  \* parentOf[c] : the comment c replies to, 0 below the post itself
  deleted    \* comments whose row is a tombstone

threadVars == <<parentOf, deleted>>

Written == DOMAIN parentOf
TopLevel == 0

ThreadsInit == parentOf = <<>> /\ deleted = {}

\* The row of a new comment, whose parent exists.
AddReply(p) ==
  /\ Len(parentOf) < MaxComments
  /\ parentOf' = Append(parentOf, p)
  /\ UNCHANGED deleted

\* route_unstable_comments_delete: the row stays.
DeleteReply(c) ==
  /\ c \notin deleted
  /\ deleted' = deleted \cup {c}
  /\ UNCHANGED parentOf

ThreadsNext ==
  \/ \E p \in Written \cup {TopLevel} : AddReply(p)
  \/ \E c \in Written : DeleteReply(c)

ThreadsSpec == ThreadsInit /\ [][ThreadsNext]_threadVars

-----------------------------------------------------------------------------
Children(p) == {c \in Written : parentOf[c] = p}

\* What c hangs on: c, what c answers, what that answers, and so on.
Ancestry(c) ==
  LET above == {S \in SUBSET (1..c) :
                  c \in S /\ \A x \in S : parentOf[x] \in S \cup {TopLevel}}
  IN {a \in 1..c : \A S \in above : a \in S}
Level(c) == Cardinality(Ancestry(c)) - 1

\* ORDER BY and LIMIT, for comments of one level: what fewer than n others are
\* ahead of.  One is ahead of another if its ancestry is newer where the two part.
FirstOf(S, n) ==
  LET ancestry == [c \in S |-> Ancestry(c)]
      Ahead(c, d) == \E a \in ancestry[c], b \in ancestry[d] : parentOf[a] = parentOf[b] /\ a > b
  IN {d \in S : Cardinality({c \in S \ {d} : Ahead(c, d)}) < n}

\* The comments read for each level.  The first page pops its extra row before
\* it asks for replies; below it, the LIMIT is one of all parents together, the
\* first parents' replies coming first (JOIN LATERAL of get_comments_replies).
Fetched(limit) ==
  LET level[k \in 0..Depth] ==
        IF k = 0 THEN FirstOf(Children(TopLevel), limit)
        ELSE FirstOf(UNION {Children(p) : p \in level[k - 1]}, limit + 1)
  IN level

\* Mutant: a tombstone counts by the replies that were read, dropped or not.
KeptByRows(limit) ==
  LET fetched == Fetched(limit)
  IN [k \in 0..Depth |-> {c \in fetched[k] : c \notin deleted \/ Children(c) # {}}]

\* apply_comments_replies: on its way up, each level drops the tombstones that
\* have no replies left; at the last level, those without any row below them.
Kept(limit) ==
  LET fetched == Fetched(limit)
      kept[k \in 0..Depth] ==
        LET answered == IF k = 0 THEN {c \in Written : Children(c) # {}}
                        ELSE {parentOf[x] : x \in kept[k - 1]}
        IN {c \in fetched[Depth - k] : c \notin deleted \/ c \in answered}
  IN [k \in 0..Depth |-> kept[Depth - k]]

\* The replies shown below comment c, of the ones kept on the next level, and
\* whether there is a next page of them.
RepliesOf(c, kept, limit) ==
  LET own == {x \in kept : parentOf[x] = c}
  IN [items |-> FirstOf(own, limit), more |-> Cardinality(own) > limit]

-----------------------------------------------------------------------------
\* What a reader should see: the live comments down to the last level, comments
\* that were answered beyond it, and whatever such a comment hangs on.
Worth ==
  UNION {Ancestry(x) : x \in {y \in Written : \/ y \notin deleted /\ Level(y) <= Depth
                                              \/ Level(y) = Depth + 1}}

Fits(limit) == \A k \in 0..Depth : Cardinality({c \in Written : Level(c) = k}) <= limit

(***************************************************************************)
(* Comments reply to comments written before them, and whatever is shown   *)
(* was written.                                                            *)
(***************************************************************************)
ThreadsTypeOK ==
  /\ parentOf \in Seq(0..MaxComments)
  /\ \A c \in Written : parentOf[c] < c
  /\ deleted \subseteq Written

(***************************************************************************)
(* A tree whose levels fit the page is shown whole: every live comment down *)
(* to the depth asked for, every tombstone that something shown hangs on,  *)
(* and no other (get_post_comments, apply_comments_replies,                *)
(* get_comments_replies).  A level that does not fit is cut: its comments   *)
(* share one LIMIT, so the replies of the later ones are not shown, though  *)
(* their next_page is null.                                                *)
(***************************************************************************)
TreeShownWhole ==
  LET worth == Worth IN
  \A limit \in PageLimits : Fits(limit) =>
    LET kept == Kept(limit) IN
    /\ kept[0] = {c \in worth : Level(c) = 0}
    /\ \A k \in 0..(Depth - 1) : \A c \in kept[k] :
         LET r == RepliesOf(c, kept[k + 1], limit) IN
         ~r.more /\ r.items = {x \in worth : parentOf[x] = c}

=============================================================================
