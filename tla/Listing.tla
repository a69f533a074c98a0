------------------------------ MODULE Listing ------------------------------
(***************************************************************************)
(* Lists served in pages while their rows change (src/src/routes/api/mod.rs,*)
(* posts/mod.rs, posts/replies.rs, communities.rs, users.rs, and the outbox *)
(* pages of src/src/routes/apub).                                           *)
(*                                                                         *)
(* A handler reads one row more than it shows.  That row gives the cursor  *)
(* of the next page, which is a position in the order, a number of rows to *)
(* skip, or a second.  What a row looks like is not modelled; its columns  *)
(* are the ones some list orders or resumes by.                            *)
(***************************************************************************)
EXTENDS Integers, FiniteSets

CONSTANTS
  Lists,           \* the lists a client walks, out of AllLists
  MaxRows,         \* bound: rows ever inserted
  Times,           \* instants a row may be dated with
  TicksPerSecond,  \* instants of one second
  Limits,          \* page sizes a client asks for
  MaxChanges,      \* bound: changes during a walk
  MaxServed        \* bound: pages of one walk, as one over tied comments may not end

VARIABLES
  list,     \* the list this client walks
  stored,   \* its rows
  walk      \* how far the client is

listingVars == <<list, stored, walk>>

Positioned == {"posts new", "posts new sticky", "post likes", "modlog",
               "communities old", "communities alphabetic"}
Offset     == {"posts top", "posts hot", "communities numbered"}
Comments   == {"comments", "replies"}
Outbox     == {"outbox"}
\* Lists whose second page is never served.
Broken     == {"user things", "communities ranked"}
AllLists   == Positioned \cup Offset \cup Comments \cup Outbox \cup Broken

ASSUME ListingAssumption ==
  /\ Lists \subseteq AllLists
  /\ MaxRows \in Nat /\ MaxChanges \in Nat /\ MaxServed \in Nat
  /\ Times \subseteq Nat /\ TicksPerSecond \in Nat \ {0}
  /\ Limits \subseteq Nat

\* `at` is when it was created (for a community, its name), `sub` the ap_id of a
\* community (0 when it is local), `score` what a vote changes.
ListRow(id, at, sub, score, sticky) ==
  [id |-> id, at |-> at, sub |-> sub, score |-> score, sticky |-> sticky, gone |-> FALSE]

ByPosition(r) == <<-r.at, -r.id>>

\* What the rows are ordered by, ascending: post_sort_sql, comment_sort_sql,
\* sort_sql and the ORDER BY of the other handlers.  Rows with equal keys come
\* in any order.
SortKey(r) ==
  CASE list = "posts new sticky" -> <<-r.sticky, -r.at, -r.id>>
    [] list \in {"posts new", "post likes"} -> ByPosition(r)
    [] list = "modlog" -> <<-r.id>>
    [] list = "communities old" -> <<r.id>>
    [] list = "communities alphabetic" -> <<r.at, r.sub>>
    [] list \in {"communities numbered", "communities ranked"} -> <<-r.score, r.at, r.sub>>
    [] list = "posts top" -> <<-r.score, -r.id>>
    [] list = "posts hot" -> <<-(r.score + r.at)>>
    [] OTHER -> <<-r.at>>

KeyLess(a, b) ==
  \E i \in DOMAIN a : a[i] < b[i] /\ \A j \in 1..(i - 1) : a[j] = b[j]

\* ORDER BY and LIMIT: the n rows of S that come first, of which rows with equal
\* keys at the limit are any.
Firsts(S, n) ==
  {F \in SUBSET S :
     /\ Cardinality(F) = IF n < Cardinality(S) THEN n ELSE Cardinality(S)
     /\ \A a \in F, b \in S \ F : ~KeyLess(SortKey(b), SortKey(a))}

-----------------------------------------------------------------------------
\* Where a page begins: at its first row, after `skip` rows, or at a position.
Start    == [kind |-> "start"]
Skip(n)  == [kind |-> "skip", n |-> n]
At(r)    == [kind |-> "at", row |-> r]
Before(t) == [kind |-> "before", t |-> t]

\* Mutant: the position of the row that was not shown is left out.
ResumesAfter(c, r) ==
  IF c.kind = "before" THEN r.at < c.t
  ELSE c.kind = "at" =>
         CASE list = "communities old" -> r.id > c.row.id
           [] list = "communities alphabetic" -> KeyLess(SortKey(c.row), SortKey(r))
           [] list = "modlog" -> r.id < c.row.id
           [] list = "posts new sticky" ->
                IF c.row.sticky = 1 THEN r.sticky = 0 \/ KeyLess(ByPosition(c.row), ByPosition(r))
                ELSE r.sticky = 0 /\ KeyLess(ByPosition(c.row), ByPosition(r))
           [] OTHER -> KeyLess(ByPosition(c.row), ByPosition(r))

\* handle_page, and the page conditions of the other handlers.  A local
\* community's cursor has a name only, which is before any ap_id of that name.
Resumes(c, r) ==
  IF c.kind = "before" THEN r.at < c.t
  ELSE c.kind = "at" =>
         CASE list = "communities old" -> r.id >= c.row.id
           [] list = "communities alphabetic" ->
                IF c.row.sub = 0 THEN r.at >= c.row.at ELSE ~KeyLess(SortKey(r), SortKey(c.row))
           [] list = "modlog" -> r.id <= c.row.id
           [] list = "posts new sticky" ->
                IF c.row.sticky = 1 THEN r.sticky = 0 \/ ~KeyLess(ByPosition(r), ByPosition(c.row))
                ELSE r.sticky = 0 /\ ~KeyLess(ByPosition(r), ByPosition(c.row))
           [] OTHER -> ~KeyLess(ByPosition(r), ByPosition(c.row))

Skipped(c) == IF c.kind = "skip" THEN c.n ELSE 0

\* get_next_posts_page, get_next_comments_page, get_next_page: `extra` is the
\* row that was read and not shown.
NextPage(c, limit, extra) ==
  IF list \in Offset THEN Skip(Skipped(c) + limit) ELSE At(extra)

Second(t) == (t \div TicksPerSecond) * TicksPerSecond

Earliest(S) == CHOOSE t \in {r.at : r \in S} : \A r \in S : t <= r.at

\* Mutant: the outbox names the second after its last item.
OutboxPageFrom(window) ==
  [items |-> window,
   next  |-> IF window = {} THEN Start ELSE Before(Second(Earliest(window)) + TicksPerSecond)]

\* handler_communities_outbox_page_get, handler_users_outbox_page_get: a `next`
\* of whole seconds (TimestampOrLatest) after every page that has items.
OutboxPage(window) ==
  [items |-> window,
   next  |-> IF window = {} THEN Start ELSE Before(Second(Earliest(window)))]

\* The u8 `limit + 1` of posts and things wraps; elsewhere it does not.
ReadLimit(limit) ==
  IF list \in {"posts new", "posts new sticky", "posts top", "posts hot", "user things"}
  THEN (limit + 1) % 256
  ELSE limit + 1

\* The pages that rows make, of which more may have been read than are shown;
\* "Start" as the next page is none.
PagesOf(rows, c, limit) ==
  UNION {IF items = rows THEN {[items |-> items, next |-> Start]}
         ELSE {[items |-> items, next |-> NextPage(c, limit, extra)] : extra \in rows \ items}
          : items \in Firsts(rows, limit)}

\* The rows a query of the list sees: comments are read with their tombstones.
Visible == IF list \in Comments THEN stored ELSE {r \in stored : ~r.gone}

\* The rows that are read from where c says: WHERE, then OFFSET, then LIMIT.
Eligible(c) == {r \in Visible : Resumes(c, r)}
Windows(c, limit) ==
  UNION {Firsts(Eligible(c) \ skipped, limit) : skipped \in Firsts(Eligible(c), Skipped(c))}

\* What the handler may answer.  get_comments_replies drops deleted comments
\* before it counts its rows, get_post_comments when it has.
PagesAt(c, limit) ==
  CASE list \in Outbox -> {OutboxPage(window) : window \in Windows(c, limit)}
    [] list = "replies" ->
         UNION {PagesOf({r \in window : ~r.gone}, c, limit) : window \in Windows(c, ReadLimit(limit))}
    [] OTHER ->
         UNION {PagesOf(window, c, limit) : window \in Windows(c, ReadLimit(limit))}

-----------------------------------------------------------------------------
\* `shown` says how often each row was, `cuts` the seconds in which pages ended.
Idle == [pc |-> "idle", limit |-> 1, cursor |-> Start, shown |-> [i \in 1..MaxRows |-> 0],
         served |-> 0, steady |-> {}, calm |-> TRUE, tied |-> FALSE, cuts |-> {}, changes |-> 0]

ListingInit ==
  /\ list \in Lists
  /\ stored = {}
  /\ walk = Idle

Tie(r) == \E x \in stored : x # r /\ SortKey(x) = SortKey(r)

\* `steady` are the rows the client could rely on since it began; `calm` says
\* that nothing at all has changed, `tied` that rows of equal keys have met.
Changed(r) ==
  /\ \/ walk.pc = "idle" /\ UNCHANGED walk
     \/ /\ walk.pc = "walking" /\ walk.changes < MaxChanges
        /\ walk' = [walk EXCEPT !.changes = @ + 1, !.calm = FALSE,
                                !.steady = @ \ {r.id}, !.tied = @ \/ Tie(r)]
  /\ UNCHANGED list

\* A row is inserted.  A server may date its posts as it likes; the rows of the
\* modlog and the communities are numbered in order.
InsertRow(at, sub, score, sticky) ==
  LET r == ListRow(Cardinality(stored) + 1, at, sub, score, sticky) IN
  /\ Cardinality(stored) < MaxRows
  /\ list \notin {"communities alphabetic", "communities numbered", "communities ranked"}
       => sub = 0
  /\ list \in {"communities alphabetic", "communities numbered", "communities ranked"}
       => \A x \in stored : <<x.at, x.sub>> # <<at, sub>>   \* local names, ap_ids are unique
  /\ list # "posts new sticky" => sticky = 0
  /\ list \notin {"posts top", "posts hot", "communities numbered"} => score = 0
  /\ stored' = stored \cup {r}
  /\ Changed(r)

\* A row leaves the list, but its id stays taken and a comment's tombstone is
\* still read.  Before a walk this matters to comments only.
RemoveRow(r) ==
  /\ ~r.gone
  /\ walk.pc = "walking" \/ list \in Comments
  /\ stored' = (stored \ {r}) \cup {[r EXCEPT !.gone = TRUE]}
  /\ Changed(r)

\* A vote, a new last post, or a moderator moves a row.
MoveRow(r, score, sticky) ==
  /\ ~r.gone /\ walk.pc = "walking"
  /\ <<score, sticky>> # <<r.score, r.sticky>>
  /\ list # "posts new sticky" => sticky = r.sticky
  /\ list \notin {"posts top", "posts hot", "communities numbered"} => score = r.score
  /\ LET moved == [r EXCEPT !.score = score, !.sticky = sticky] IN
     /\ stored' = (stored \ {r}) \cup {moved}
     /\ Changed(moved)

\* The limit of an outbox is not the client's, and not 0.
BeginWalk(limit) ==
  /\ walk.pc = "idle" /\ (list \in Outbox => limit > 0)
  /\ walk' = [Idle EXCEPT !.pc = "walking", !.limit = limit,
                          !.steady = {r.id : r \in {x \in stored : ~x.gone}},
                          !.tied = \E r \in Visible : Tie(r)]
  /\ UNCHANGED <<list, stored>>

\* The handler of the list: a page, from a snapshot.
ServePage ==
  /\ walk.pc = "walking" /\ walk.served < MaxServed
  /\ walk.cursor # Start => list \notin Broken
  /\ \E p \in PagesAt(walk.cursor, walk.limit) :
       walk' = [walk EXCEPT
         !.served = @ + 1,
         !.shown  = [i \in 1..MaxRows |->
                       IF \E r \in p.items : r.id = i /\ ~r.gone THEN @[i] + 1 ELSE @[i]],
         !.cursor = p.next,
         !.cuts   = IF list \in Outbox /\ p.items # {} THEN @ \cup {Second(Earliest(p.items))}
                    ELSE @,
         !.pc     = IF p.next = Start THEN "done" ELSE "walking"]
  /\ UNCHANGED <<list, stored>>

\* The next page of these lists is a statement PostgreSQL does not parse (user
\* things) or a cursor the handler does not take (a ranking without page_number).
RefusePage ==
  /\ walk.pc = "walking" /\ walk.cursor # Start /\ list \in Broken
  /\ walk' = [walk EXCEPT !.pc = "refused"]
  /\ UNCHANGED <<list, stored>>

ListingNext ==
  \/ \E at \in Times, sub, score, sticky \in 0..1 : InsertRow(at, sub, score, sticky)
  \/ \E r \in stored : RemoveRow(r)
  \/ \E r \in stored, score, sticky \in 0..1 : MoveRow(r, score, sticky)
  \/ \E limit \in Limits : BeginWalk(limit)
  \/ ServePage
  \/ RefusePage

ListingSpec == ListingInit /\ [][ListingNext]_listingVars

-----------------------------------------------------------------------------
\* When a walk should show every steady row once: always, where the cursor is a
\* position in a total order; for skipped rows, while nothing changes; comments
\* of one time are in no order.
Dependable ==
  /\ ReadLimit(walk.limit) > walk.limit
  /\ \/ list \in Positioned
     \/ list \in Offset /\ walk.calm /\ ~walk.tied
     \/ list = "comments" /\ ~walk.tied
     \/ list = "replies" /\ ~walk.tied /\ \A r \in stored : ~r.gone

(***************************************************************************)
(* Rows and walks are what they are declared to be.                        *)
(***************************************************************************)
ListingTypeOK ==
  /\ list \in Lists
  /\ \A r \in stored : r.id \in 1..MaxRows /\ r.at \in Times /\ r.gone \in BOOLEAN
  /\ walk.pc \in {"idle", "walking", "done", "refused"}
  /\ walk.shown \in [1..MaxRows -> 0..MaxServed]
  /\ walk.steady \cup {i \in 1..MaxRows : walk.shown[i] > 0} \subseteq {r.id : r \in stored}
  /\ walk.cursor.kind \in {"start", "skip", "at", "before"}

(***************************************************************************)
(* A client that follows next_page to its end has seen every row that was  *)
(* in the list all the while, once, whatever was inserted, removed, voted  *)
(* on or made sticky between two pages (SortType::handle_page,             *)
(* CommunitiesSortType::handle_page).                                      *)
(***************************************************************************)
WalkShowsEachOnce ==
  Dependable => \A i \in walk.steady :
    /\ walk.shown[i] <= 1
    /\ walk.pc = "done" => walk.shown[i] = 1

(***************************************************************************)
(* An outbox page names the next by a whole second.  So a reader misses    *)
(* only activities of a second in which some page ended, and is never led  *)
(* around in a circle (TimestampOrLatest, handler_users_outbox_page_get).  *)
(***************************************************************************)
OutboxMissesOneSecond ==
  list \in Outbox =>
    /\ \A i \in walk.steady : walk.shown[i] <= 1
    /\ walk.pc = "done" =>
         \A r \in stored :
           r.id \in walk.steady /\ walk.shown[r.id] = 0 => Second(r.at) \in walk.cuts
=============================================================================
