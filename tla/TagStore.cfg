SPECIFICATION Spec
CONSTANTS
  Names <- MCNames
  SystemNames <- MCSystemNames
  UdpNames <- MCUdpNames
  Values <- MCValues
  Capacity = 4
  LoadLimit = 3
  Defaults <- MCDefaults
  Ensured <- MCEnsured
  Uploads <- MCUploads
  Declarations <- MCDeclarations
  Written <- MCWritten
INVARIANTS
  TypeOK
  OneCellPerName
  ReferencesStayValid
  UploadTookEffect
  PartialOnlyAfterDeclare
PROPERTIES
  SavedTagsRestored
