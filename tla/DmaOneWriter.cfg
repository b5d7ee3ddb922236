SPECIFICATION HardwareSpec
CONSTANTS
    Writers = {w}
    Messages = {m1, m2}
    Zero = Zero
    Identities = {"0x70", "0x71", "0x12"}
    Supported = {"0x70", "0x71"}
    Awake = "0x01"
    PowerOn = "0x40"
    Uncached = "none"
INVARIANTS
    HardwareTypeOK
    DeviceOwnsMapped
    WriteIsCopied
    ChipIsAsReported
PROPERTIES
    ReadsReturnWrites
    CallsReturn
\* The probe of the sensor runs once.
CHECK_DEADLOCK FALSE
