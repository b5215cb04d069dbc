SPECIFICATION FairSpec
CONSTANTS
  Hosts = {a, b}
  NoMac = none
  MaxQueue = 3
  MaxFlight = 2
INVARIANTS TypeOK OneHolderWhenQuiet
PROPERTY AddressAnswers
