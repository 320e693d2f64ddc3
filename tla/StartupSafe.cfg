SPECIFICATION FairSpec
CONSTANTS
  Products = {combo, drink}
  MaxFaults = 2
  MaxDowngrades = 2
INVARIANTS TypeOK VersionIsEarned ReadyIsSound
PROPERTIES OwnPricesKept Starts
