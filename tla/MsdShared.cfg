SPECIFICATION Spec
CONSTANTS
    Default = drive
    Images = {drive, disk, iso}
    Isos = {iso}
    NoMedium = NoMedium
    NoLun = NoLun
INVARIANT NeverMountedAtOnce
