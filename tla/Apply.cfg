CONSTANTS
    u = u
    v = v
    w = w
    pay = pay
    part = part
    gas = gas
    Account = {u, v, w}
    Tx = {pay, gas, part}
    tx <- TheTxs
    Slow = {pay}
    Genesis <- TheGenesis
    NoAccount = NoAccount
    Unset = Unset
    Rewarded <- TheRewarded
    base_reserve = 3
    block_reward = 1
    Checked = TRUE
    Loads = {TRUE, FALSE}
    MaxTxs = 2
    MaxLedger = 2
    MaxRuns = 1
SPECIFICATION Spec
INVARIANTS ProposalsAccepted ClosesAsFollowed FollowAgrees Conservation  AppliedOnce
CHECK_DEADLOCK FALSE
