\* The window hook: the initialisation thread racing the message-loop thread.
CONSTANTS
    m1 = m1
    m2 = m2
    quit = quit
    SysMsgs <- TwoMsgs
    Quit <- quit
    MaxPosted = 3
SPECIFICATION FairSpec
INVARIANT CallbackSeesGlobals
CHECK_DEADLOCK FALSE
