SPECIFICATION Spec
INVARIANTS
  ItemsAsOne
  OpensOwned
  RemovalTruthful
  ListingsTruthful
