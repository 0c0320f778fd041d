SPECIFICATION Spec

CONSTANTS
    s1 = s1
    feed1 = feed1
    click1 = click1
    Tags <- MCTags
    Scale = 10
    DecayNumerator = 8
    DecayDenominator = 10
    ClickBoost = 2
    SaveBoost = 3
    TopTagLimit = 2
    Saves = {s1}
    TagsOf <- MCTagsOf
    Articles <- MCArticles
    Clicks <- MCClicks
    Readers = {feed1}
    Clickers = {click1}
    QiitaWindow = 1
    ZennWindow = 2
    ZennStoredWindow = 3
    FeedLimit = 2
    PopularLimit = 3
    MaxInt64 = 30
    MaxClicks = 1
    MaxChanges = 1

INVARIANTS TypeOK FeedFits
PROPERTIES ImplementsInterests GetEnds
