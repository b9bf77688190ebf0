CONSTANTS
    app = app
    agent = agent
    masterkey = masterkey
    appkey = appkey
    Procs = {app, agent}
    Accounts = {masterkey, appkey}
    Secrets = {secret}
    Orders = 2
    Fails = TRUE
    Absent = Absent
    Nobody = Nobody
SPECIFICATION FairSpec
INVARIANT TypeOK
PROPERTIES
    OthersSurvive
    WriteLands
    LockComesFree
