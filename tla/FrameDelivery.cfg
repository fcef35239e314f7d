CONSTANTS
    Thumbs = {t1}
    Imx219 = {c1}
    Alvium = {c2}
    Workers = {w1, w2}
    Sizes <- TwoFrames
    Nobody = Nobody
SPECIFICATION Spec
INVARIANTS ImageIsWhole MessagesAreWhole FramesInOrder HoldersGoOn
