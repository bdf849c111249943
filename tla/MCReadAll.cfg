CONSTANTS
    Fd = {f1}
    Line = {"cmd"}
    RecvMax = 1
    MaxIn = 2
    MaxOut = 1
    MaxBacklog = 1
SPECIFICATION Spec
PROPERTIES
    HangUpReadsAll
