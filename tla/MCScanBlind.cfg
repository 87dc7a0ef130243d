SPECIFICATION Spec
CHECK_DEADLOCK FALSE
CONSTANTS
    None = None
    Start = {t1}
PROPERTIES
    ActiveScannerDetects
