SPECIFICATION Spec
CONSTANTS
    Writers = {w1, w2}
    Messages = {m1, m2}
    Zero = Zero
INVARIANTS
    WriteIsCopied
