\* One download over the looper of compat/.
CONSTANTS
  Id = {0, 1}
  Uses <- OverLooperShim
SPECIFICATION Spec
CHECK_DEADLOCK FALSE
INVARIANT DownloadSucceeds
