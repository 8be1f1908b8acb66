CONSTANTS
  ClassOf <- MCClassOf
  Spaces = {32}
  PanelW = 12
  PanelH = 20
  Margin = 1
  GlyphW <- MCGlyphW
  GlyphH <- MCGlyphH
  ReservedRows = 2
  Keys = {110, 32, 10, 13, 92, 769, 8205, 128512, 127462}
  Configs <- MCConfigs
  Absent = Absent
  DefaultMaxChars = 3
  MinInterval = 2
  FontSteps = 2
  LightSteps = 2
  LogCapacity = 2
  MaxWork = 4
SPECIFICATION Spec
INVARIANTS ClustersAreWhole LinesFit PagesWhole CutRecordsDecode SettingsSurvive LogIsTheLatest
CHECK_DEADLOCK FALSE
