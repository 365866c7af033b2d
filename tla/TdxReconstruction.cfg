SPECIFICATION Spec
CONSTANTS
  Firmwares <- MCFirmwares
  Ukis <- MCUkis
  SoundFirmwares <- MCSoundFirmwares
  UkisWithKernel <- MCUkisWithKernel
  PlainUkis <- MCPlainUkis
  Disks <- MCDisks
  Layouts <- MCLayouts
INVARIANTS
  Reconstructs
  RefusedForAReason
