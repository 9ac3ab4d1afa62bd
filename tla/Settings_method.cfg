\* One folder, a first start without a file or with one of any version.
SPECIFICATION SetSpec
CONSTANTS
    Dirs = {d1}
INVARIANT MethodKept
CHECK_DEADLOCK FALSE
