SPECIFICATION ExportSpec
CONSTANTS
  Exports <- MCExports
  SubjectNames <- MCSubjectNames
INVARIANTS
  BuiltTreesValid
  TenantsFailAlone
  NothingLostSilently
  FindingsNameNodes
