\* A picture 64 pixels wide and 128 high, in two segment rows.
SPECIFICATION Spec
CONSTANTS
    Threads = {w1, w2}
    Layouts <- NarrowLayouts
    PoolSize = 4
    MaxRecodes = 0
CHECK_DEADLOCK FALSE
PROPERTY PictureIsCoded
