SPECIFICATION Spec
CONSTANTS
  s1 = s1
  s2 = s2
  s3 = s3
  k1 = k1
  k2 = k2
  None = None
  Sessions = {s1, s2, s3}
  Keys = {k1, k2}
  KeyOf <- MCKeyOf
  MaxNodes = 2
  MaxEvents = 1
INVARIANTS
  TypeOK
  RecordIsWatched
  ServingIsRegistered
  AllIntroduced
  AddressesDiffer
  AddressIdentifiesKey
SYMMETRY Twins
CHECK_DEADLOCK FALSE
