SPECIFICATION FairSpec
CONSTANTS
  Message = {m1, m2, draft}
  NoId = {draft}
  Scheduled = r1
  ByHand = {}
  MaxByHand = 0
  None = None
  MaxChanges = 2
  MaxFailures = 2
INVARIANT TypeOK
PROPERTIES StoreSpec CommittedRunIsComplete StoredOrSkipped DeletedLinkMeansBackfill
