CONSTANTS
  Runs = {r1}
  Processes = {p1, p2}
  Places = {r1}
  Place <- OwnPlace
  Files = {kept, edited, added, removed}
  Bytes = {old, new}
  Base <- MCBase
  Patched <- MCPatched
  Missing = Missing
  Torn = Torn
  Nobody = Nobody
  MaxFaults = 2
  kept = kept
  edited = edited
  added = added
  removed = removed
  old = old
  new = new
SPECIFICATION FairSpec
INVARIANTS PublishedIsPhysical IntentIsRecoverable RemovalIsFinal
PROPERTIES NoTransitionLost ForeignStays IsTree ApplyingConverges
