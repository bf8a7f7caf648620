SPECIFICATION SpecLife
CONSTANTS
  Graphs = {g, h}
  Paths = {"a.xml", "b.xml", "c.xml", "z.xml"}
  PathOrder <- MCPathOrder
  RootPaths = {"a.xml", "z.xml"}
  RootObjects = {root, other}
  Texts = {"one", "two", "bad"}
  Unencodable = "bad"
  LinkLists <- MCLinkLists
  Originals <- MCOriginals
  FirstRoot <- MCFirstRoot
  Foreign <- MCForeign
  Missing = missing
  MaxEdits = 3
  Limits <- MCLimits
  Edited <- MCEdited
SYMMETRY Symmetry
INVARIANTS
  ChargedWhileLive
  ReturnsClean
  ResultSound
  AllOrNothing
  UneditedKeepBytes
PROPERTIES
  NoLostUpdate
