SPECIFICATION Spec
CONSTANTS
  Path = {p1, p2}
  short = short
  short2 = short2
  long = long
  Content = {short, short2, long}
  SizeOf <- Sizes
  Absent = Absent
  Key = {k1}
  MaxMishaps = 1
  Digest = {short, short2, long}
  NoDigest = NoDigest
  Owner = {p1, p2}
  NoOwner = NoOwner
  Uploader = {u1}
  MaxArtifacts = 4
  MaxImports = 2
INVARIANTS
  BuiltHasEveryMember
  ImportedWasSigned
  ImportedIsStored
  OneRowPerAttempt
  ObjectHasRow
SYMMETRY Symmetry
