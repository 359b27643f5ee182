CONSTANTS
  Pins = {"jtag", "qspi24", "sd0"}
  BootSeqs <- McSeqs
  Medias <- McMedias
  Eeproms <- McEeproms
  MAX_MULTIBOOT_ATTEMPTS = 2
  MaxStarts = 2
  Socs = {"zynq", "zynqmp"}
  Forced <- McForced
  SN_LEN = 2
  NIC_MAX = 15
  IVEIA_OUI = 16
SPECIFICATION ScanSpec
INVARIANTS OneImage FirstChoice LinuxToldTruth MacsUnique
PROPERTIES BootSettles
CHECK_DEADLOCK FALSE
