SPECIFICATION Spec
CONSTANTS
  s1 = s1
  s2 = s2
  kl = kl
  al = al
  sd = sd
  se = se
  mt = mt
  k1 = k1
  k2 = k2
  Server = {s1, s2}
  KeyListener = {kl}
  AllListener = {al}
  Started = {{kl}, {al}}
  Sender = {sd, se}
  Member = mt
  Key = {k1}
  ListenKeys <- OneKey
  Time = {1}
  StartTime = 1
  FirstServer = s1
  SerialCommits = FALSE
  MaxEvents = 2
  MaxTries = 2
  MaxFaults = 1
INVARIANTS HandedOnceInOrder StoredOnce NoLostWakeup
CHECK_DEADLOCK FALSE
SYMMETRY Interchangeable
