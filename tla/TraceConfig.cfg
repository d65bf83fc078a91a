\* Four categories, one of them with a tag's name as its description, and
\* every configuration made of three entries for each of the four lists.
CONSTANTS
  Null = Null
  Slow = "slow"
  Debug = "debug"
  MaxTags = 2
  Name <- Strings
  PrefixesOf <- Prefixes
  Ext <- Categories
  Entries <- SomeEntries
SPECIFICATION Spec
INVARIANTS FirstMatchDecides AllowListsExact SlowNeedsEntry
PROPERTY EntriesMonotone
CHECK_DEADLOCK FALSE
