SPECIFICATION FairSpec
CONSTANTS
  None = None
  shop = shop
  shop2 = shop2
  shop3 = shop3
  shop22 = shop22
  Requests = {r1, r2, r3}
  Codes = {c1, c2}
  Bases <- Asked
  Slugs = {shop, shop2, shop3, shop22}
  MaxAttempts = 3
  TenantSlugCandidate <- Candidates
  TakenSlugs = {shop2, shop3}
  Kinds = {"create", "register", "bootstrap"}

INVARIANTS TypeOK OnceWhileValid AnswersAreTrue NoSlugSkipped
PROPERTY RequestsFinish
CHECK_DEADLOCK FALSE
