SPECIFICATION InstallSpec
CONSTANTS
  ooda = ooda
  ipb = ipb
  ipb_x = ipb_x
  dirOoda = dirOoda
  dirIpb = dirIpb
  dirOwn = dirOwn
  commander = commander
  staff = staff
  Unlisted = Unlisted
  Absent = Absent
  Torn = Torn
  Malformed = Malformed
  Skills <- MCSkills
  Dirs <- MCDirs
  DirOf <- MCDirOf
  Packages <- MCPackages
  Configs <- MCConfigs
  InitialDisk <- MCInitialDisk
  MaxUploads = 4
  MaxStarts = 3
INVARIANTS
  InstallTypeOK
  RegistryMatchesDisk
  DiskLoadsUnlessTorn
CHECK_DEADLOCK FALSE
