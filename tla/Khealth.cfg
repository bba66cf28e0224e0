SPECIFICATION FairSpec
CONSTANTS
    Nodes = {n1}
    EtcdNodes = {n1}
    Tier = {"journal", "config"}
    Tabs <- MCTabs
    Pinned = {}
    Required = {"pods"}
    Optional = {"secrets-metadata", "configmaps-metadata"}
    Shifting = {"pods", "helm-releases"}
    MaxVersion <- MCMaxVersion
    Clusters = {c1, c2}
    Host = {"vip", "cp"}
    SSHHost = "cp"
    NameOf <- MCNameOf
    MaxNumber = 2
    MaxRuns = 3
    MaxKills = 1
    Members = {m1, m2}
    SSHHosts = {m1}
    EtcdMembers = {m1}
    Involved = {m1}
    None = None
    Unanswered = Unanswered
    NoFile = NoFile
    NoEntry = NoEntry
INVARIANTS ShownOrScheduled MissingIsReported SecretReleasesAreCurrent ManifestIsHonest
PROPERTIES AgesAreHonest WantedIsRefreshed GrantsAreNoticed OthersKept CopyIsKept GathersEnd
CHECK_DEADLOCK FALSE
