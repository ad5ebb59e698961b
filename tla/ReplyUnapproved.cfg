SPECIFICATION Spec
CONSTANTS
  Generates = {generate}
  Queue = queue
  Regenerates = {regenerate}
  Approvals = {approve}
  Publishes = {publish}
  Rejects = {reject}
  NoReplies = {noreply}
  Syncs = {sync}
  Nobody = Nobody
  MaxRequests = 3
  MaxTexts = 2
  MaxLost = 1
CHECK_DEADLOCK FALSE
INVARIANT OnlyApprovedIsSent
