CONSTANTS
  Absent = Absent
  linux = linux
  arm = arm
  win = win
  u1 = u1
  u2 = u2
  mac = mac
  pc = pc
  CheckoutOf <- TwoCheckouts
  Platforms <- ThePlatforms
  Uploaders <- TwoUploaders
  MaxBuilds = 2
SPECIFICATION ReleaseSpec
INVARIANTS
  SuccessMeansPublished
  PublishedIsChecked
