SPECIFICATION FairSpec
CONSTANTS
  Generates = {generate}
  Queue = queue
  Regenerates = {regenerate}
  Approvals = {approve}
  Publishes = {publish}
  Rejects = {reject}
  NoReplies = {noreply}
  Syncs = {sync}
  Nobody = Nobody
  MaxRequests = 2
  MaxTexts = 2
  MaxLost = 1
INVARIANTS
  PublishedIsAnswered
PROPERTIES
  SyncMissesNothing
  AnswerIsShown
CHECK_DEADLOCK FALSE
