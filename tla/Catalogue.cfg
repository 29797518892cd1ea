\* Two requests at a time; the cache is fresh for two ticks and a fetch takes up to one.
CONSTANTS
  Worker = {w1, w2}
  Lists <- MCLists
  Static <- MCStatic
  TTL = 2
  MaxFetch = 1
SPECIFICATION FairSpec
INVARIANTS TypeOK Staleness ListingAgrees ListedIsAskable
PROPERTY Converges
