\* On wayland no output is known to be the one the menu is on.
SPECIFICATION DisplaySpec
CONSTANTS
  Apps = {"x", "y"}
  Items = {"a", "c"}
  Owner <- Publisher
  Props = {"icon"}
  Changing = {"a"}
  MaxVersion = 1
  MaxStarts = 1
  MaxOpens = 1
  MaxFaults = 1
  Backlog = 2
  Ssids = {"home", "cafe"}
  Secured = {"cafe"}
  Configurations <- MCConfigurations
  MayFail = {"list", "add", "set", "select", "save"}
  MaxNetwork = 3
  MaxQuestions = 2
  MaxSessions = 2
  MaxCalls = 2
  Devices = {"pad", "phone"}
  Default = "default"
  InputDevices = {"pad", "phone"}
  Pins = {"0000"}
  MaxEvents = 1
  MaxEntries = 2
  Outputs = {"A", "B", "C"}
  MaxHotplugs = 3
INVARIANTS
  OwnOutputStaysOn
CHECK_DEADLOCK FALSE
