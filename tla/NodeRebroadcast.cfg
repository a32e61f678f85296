SPECIFICATION MCSpec
CONSTANTS
  p = p
  t1 = t1
  m1 = m1
  m2 = m2
  r1 = r1
  r2 = r2
  Threads = {r1, r2}
  Objects = {p, t1}
  TypeOf <- MCTypeOf
  TimeOf <- MCTimeOf
  Masternodes = {m1, m2}
  Self = m1
  Conf <- MCConf
  Signals = {"funding", "valid"}
  Outcomes = {"yes", "no"}
  VotedOn = {p}
  Ballots <- MCBallots
  Loads = {{"masternode"}}
  Size = 2
  MaxRate = 2
  MaxTime = 1
  RingSize = 5
  Timestamps = {1, 2, 3}
  MaxInt64 = 7
INVARIANT RestartsWithoutBroadcast
SYMMETRY ThreadsAlike
