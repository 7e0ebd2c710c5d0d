SPECIFICATION Spec
CONSTANTS
  Nist = {"G4_AIR", "G4_Al", "G4_Fe"}
  Documents <- MCDocuments
  MaxSuffix = 4
  Deposits = {1, 2}
  MaxTracks = 2
  MaxSteps = 1
  CommandLines <- MCCommandLines
  Options = {"-m", "-u", "-t", "-x"}
  Extension <- MCExtension
  MaterialFiles <- MCMaterialFiles
  Macros <- MCMacros
  Half <- MCHalf
  Offset <- MCOffset
  DD4hepMaterials = {"Air", "Iron"}
  Detectors = {"Tracker", "Calo"}
  Assignments <- MCAssignments
  RuleFiles <- MCRuleFiles
  MaxUserCalls = 3
  ToolLines <- MCToolLines
  Spelling <- MCSpelling
  NonAscii = {"ue"}
  Defaults <- MCDefaults
  Unwritable = {"ro.xml"}
  MaxToolRuns = 2
  Suitable <- MCSuitable
  CompactFiles <- MCCompactFiles
INVARIANT NamesReadBack
