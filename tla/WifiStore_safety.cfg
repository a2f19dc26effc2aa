\* Three networks, one more than fit, and two passwords.
SPECIFICATION Spec
CONSTANTS
  Ssid = {s1, s2, s3}
  Password = {p1, p2}
  NoSsid = NoSsid
  Damaged = Damaged
  MaxNetworks = 2
SYMMETRY Symmetry
INVARIANTS TypeOK OneEntryPerSsid
PROPERTY SavesKeepNetworks
