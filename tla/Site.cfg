SPECIFICATION SiteSpec
CONSTANTS
  Names = {root, ann}
  Root = root
  Invites = {k1}
  ResetKeys = {r1}
  Settings <- SiteSettings
  Handlers = {h1, h2}
  MaxCommits = 3
  Lists <- AllLists
  MaxRows = 3
  Times = {1, 2, 3}
  TicksPerSecond = 2
  Limits = {1, 2, 255}
  MaxChanges = 1
  MaxServed = 4
  MaxComments = 5
  Depth = 2
  PageLimits = {1, 2, 3}
  People = {founder, admin, elder}
  Founder = founder
  Admin = admin
  Legacy = {elder}
  Slots = {h1, h2}
  MaxTicks = 3
  Lanes = {inbox, main}
  Announces = {a1, a2}
  Adds = {a2}
  MaxSent = 4
  MaxWorks = 1
  Own = {"own"}
  Foreign = {"far", "odd"}
  Endpointed = {"own", "odd"}
  Lively = {"own", "odd"}
  Flagged = {"odd"}
  MaxListed = 2
  Feeds = {"feed"}
  Brands = {"lemmy-compatible", "hubzilla", "friendica", "wordpress", "castopod"}
  Static = "unnamed"
  LooksMbin = FALSE
  Endpoints <- CrawlEndpoints
  Pages <- CrawlPages
  ActorProbes = 1
  OutboxProbes = 1
  Objects = {"head", "answer", "guest", "old", "late"}
  NoParent = "top"
  InReplyTo <- HistoryParents
  Host <- HistoryHosts
  Author <- HistoryAuthors
  Addressed = {"head", "answer", "guest"}
  GroupWritten = {"old"}
  Hidden = {"old"}
  Faceless = {"bob"}
  Refused = {"old"}
  FlakyObjects = {"head"}
  Boards = {"head"}
  Entries <- HistoryEntries
  OutboxPages <- HistoryPages
  Shelves <- HistoryShelves
  Software = {"plain", "elgg", "nodebb", "discourse", "friendica", "mbin"}
  MaxItems = 3
  MaxOutboxPages = 2
  PreviewItems = 2
  PreviewPages = 1
  PreviewRelays = 1
  Theirs = {"c1", "c2", "c3", "c4"}
  Mine = {"mine"}
  Top = "post"
  Under <- ThreadUnder
  Unusable = {"c2"}
  Flaky = {"c1"}
  Begun <- ThreadsBegun
  Platforms = {"lemmy", "piefed", "peertube", "mbin", "other"}
  PageSize = 2
  MaxPages = 2
  MaxTries = 2
  MaxWalks = 2
  MaxMoves = 2
  OwnPolls = {"own"}
  FarPolls = {"far"}
  Choices <- PollChoices
  Plural = {}
  Voters = {"ann"}
  Strangers = {"bob"}
  Ballots <- PollBallots
  Hands = {h1, h2}
  MaxCast = 2
  MaxRefreshes = 1
  Sources = {"feed", "library"}
  Familiar = {"feed"}
  Pieces = {"talk"}
  Readers = {"ann"}
  Clients = {c1, c2}
  Documents <- SourceDocuments
  MaxFaves = 2
  MaxSightings = 1
CONSTRAINT SiteBound
SYMMETRY SiteSymmetry
CHECK_DEADLOCK FALSE
INVARIANT SiteTypeOK
INVARIANT KeysDie
INVARIANT SuspensionEndsSessions
INVARIANT WalkShowsEachOnce
INVARIANT OutboxMissesOneSecond
INVARIANT TreeShownWhole
INVARIANT DeleteForwardedOnce
INVARIANT FollowersTold
PROPERTY FounderStays
INVARIANT ApprovedOnGrounds
INVARIANT ForwardedOnce
INVARIANT FaithfulWhenOrderly
PROPERTY DeleteWins
PROPERTY CrawlReplacesOrKeeps
INVARIANT NothingWithheld
INVARIANT RepliesStayReplies
INVARIANT NothingSkipped
INVARIANT VotesTold
INVARIANT LikesRetracted
