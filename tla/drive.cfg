\* A disk, a USB stick or a network share at C:, attached and detached
\* once; for the disk, every MountedDevices value of up to three WCHARs
\* after "\??\" among 'A', '#', '\', '{', NUL and U+017B.
CONSTANTS
    Letters <- CLetter
    Devices <- PassDevices
    NoDrive <- NoDevice
    MountValues <- MixedValues
    OddBytes <- EvenBytes
    MaxEnv = 1
SPECIFICATION Spec
INVARIANT DevNameMatchesReference
INVARIANT VidPidInBounds
