CONSTANTS
  MissionIds = {m1, m2, m3}
  Definitions = {"goto", "patrol"}
  Subgoals <- MCSubgoals
  NoMission = NoMission
  NoDefinition = NoDefinition
  MissionCapacity = 2
  CommandTimeout = 2
  MaxStep = 2
SPECIFICATION Spec
INVARIANTS TypeOK LedgerConsistent SnapshotMatchesLog NoSilentStall
           MotionAuthority ManualMotionBounded
PROPERTIES EventGrammar
           ImplementsLedger
