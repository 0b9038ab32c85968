CONSTANTS
    Asks = {a1, a2}
    MaxRuns = 2
    MaxBackground = 1
    MaxFalls = 1
    Callers = {c1, c2}
    NoCaller = NoCaller
    MaxPosts = 2
    MaxPairs = 3
    MaxUnlucky = 1
    Searches = {s1, s2}
    MaxHaste = 1
    TaskRuns = {r1, r2}
    NoTaskRun = NoTaskRun
    Destinations = {d1, d2}
    MaxVersions = 2
    MaxLostMarks = 1
    Homes = {home1, home2}
    MaxEdits = 2
    MaxOverlaps = 1
    Notes = {n1, n2}
    Odd = {}
    Clerks = {k1}
    MaxRevisions = 2
    MaxItems = 3
    KeepItems = 1
    MaxSweeps = 2
    MaxOmens = 1
    Groups = {ch1, ch2}
    Installed = {ch1}
    MaxSlips = 1
    Posts = {p1}
    MaxRestarts = 1
    MaxMisfires = 1
    MaxRaises = 1
    PlainSlots = {p1, p2}
    TemplatedSlots = {t1}
    MaxNames = 2
    MaxTexts = 2
    MaxKills = 1
    Drafts = {draft}
    MaxDreams = 3
    MaxReplays = 1
    Wishes = {v1}
    Deciders = {d1, d2}
    MaxProposals = 2
    MaxDeaths = 1
    Channels = {telegram, slack}
    Main = Main
    MaxEnds = 1
    MaxBackoff = 1
    MaxUnwritten = 1
SPECIFICATION Spec
VIEW InMotion
INVARIANTS PeripheryTypeOK NothingLostOrRepeated KeptInStep OperatorObeyed
CHECK_DEADLOCK FALSE
