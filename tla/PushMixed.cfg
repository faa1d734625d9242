SPECIFICATION Spec
CONSTANTS
    Lk = Lk
    Recovery = Recovery
    Images = {Lk, Recovery}
    Length <- FileLengths
    pi1 = pi1
    Pushes = {pi1}
    MaxSlice = 2
INVARIANTS
    PushIsOneFile
