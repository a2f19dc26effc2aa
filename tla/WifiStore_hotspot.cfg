\* Expected to fail: see the findings in README.md.
SPECIFICATION Spec
CONSTANTS
  Ssid = {s1, s2, s3}
  Password = {p1, p2}
  NoSsid = NoSsid
  Damaged = Damaged
  MaxNetworks = 2
SYMMETRY Symmetry
PROPERTY HotspotKeepsNetworks
