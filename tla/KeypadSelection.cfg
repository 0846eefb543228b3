CONSTANTS
    Devices = {d1, d2, d3}
    NoDevice = NoDevice
    MaxListed = 3
SPECIFICATION SelectionSpec
SYMMETRY DeviceSymmetry
CHECK_DEADLOCK FALSE
INVARIANT
    SelectionConsistent
    OwnDeviceFirst
