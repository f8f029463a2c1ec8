\* destroy racing the window thread: WM_QUIT posted before the queue exists.
CONSTANTS
    m1 = m1
    m2 = m2
    quit = quit
    SysMsgs <- TwoMsgs
    Quit <- quit
    MaxPosted = 3
SPECIFICATION FairSpec
PROPERTY DestroyEndsThread
CHECK_DEADLOCK FALSE
