CONSTANTS
    Subs = {1}
    Sigs = {1, 2}
    Titles = {"a", "b", "z"}
    Catalogue = {"a", "b"}
    Keyed = {"b"}
    Sealable = {1}
    BUNDLE_TITLES = 1
    Payment <- RentBuyRent
    NodeCount = 1
    PRICE_PER_DAY = 1
    PRICE_PER_TITLE = 2
    RENTAL_DAYS = 2
    PERPETUAL = 1000
    MaxClock = 3
    MaxLost = 1
SPECIFICATION Spec
INVARIANTS IssuedWhileGood NothingGivenAway
PROPERTIES GrantsNeverShrink RentersKeepTimeBought
