\* Carts, reviews, merchants and readers of listings, three requests at once.
CONSTANTS
  c1 = c1
  c2 = c2
  v1 = v1
  v2 = v2
  Products = {1, 2, 3}
  Customers = {c1, c2}
  Requests = {r1, r2, r3}
  Shelved <- MCShelved
  ProductForms <- MCProductForms
  MaxInFlight = 3
  Keep = Keep
  NoRow = NoRow
  Nobody = Nobody
  Amounts = {1}
  Carts <- MCCarts
  OldReviews = {v1, v2}
  Reviewed <- MCReviewed
  ReviewForms <- MCReviewForms
  Ratings = {1}
  Bodies = {1}
  Horizon = 5
  Limit = 1
SYMMETRY Symmetry
SPECIFICATION Spec
INVARIANTS TypeOK CartsExpire SecondReviewsAreRaces WalkMissesNothing WalkRepeatsNothing
PROPERTIES OnlyUnavailableLinesVanish UndisturbedAdd DeletedStaysDeleted ErasedStaysErased
