\* The Unicode entry points this build runs, on two files and two ACLs:
\* every handle and buffer a call acquires is released on every path.
CONSTANTS
    NonUnicode = FALSE
    Files <- TwoFiles
    FileLen <- ShortPaths
    Acls <- TwoAcls
    AclSize <- AclBytes
    CmdLens <- ShortCmds
    OpLens <- ShortOps
    ExitCodes = {0, 1}
    MaxEnv = 2
    ModuleLen = 40
    JNull = jnull
    f1 = f1
    f2 = f2
    small = small
    big = big
    jnull = jnull
SPECIFICATION Spec
INVARIANT HandlesReleased
