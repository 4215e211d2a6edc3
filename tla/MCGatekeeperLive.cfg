CONSTANTS
    Subs = {1, 2}
    Sigs = {1, 2}
    Titles = {"a", "b", "z"}
    Catalogue = {"a", "b"}
    Keyed = {"a", "b"}
    Sealable = {1}
    BUNDLE_TITLES = 2
    Payment <- TwoGoodOneJams
    NodeCount = 2
    PRICE_PER_DAY = 1
    PRICE_PER_TITLE = 2
    RENTAL_DAYS = 2
    PERPETUAL = 1000
    MaxClock = 0
    MaxLost = 1
SPECIFICATION FairSpec
PROPERTIES EveryPaymentIsServed
