SPECIFICATION FairSpec
CONSTANTS
  i1 = i1
  i2 = i2
  i3 = i3
  i4 = i4
  i5 = i5
  Items = {i1, i2, i3, i4, i5}
  Start <- FourListed
  Blocked = {i2}
  Searches = {"offset", "logged"}
  MaxResults = 2
  End = End
  MaxChanges = 2
  MaxLost = 1
INVARIANTS OnlyReadableShown NothingSkipped NothingTwice
PROPERTIES KeepsPromise SearchAnswered
