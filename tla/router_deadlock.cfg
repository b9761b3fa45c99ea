SPECIFICATION Spec
CONSTANTS
    a1 = a1  a2 = a2  w1 = w1  w2 = w2  w3 = w3  w4 = w4
    None = None
    Agents = {a1}
    Workers = {w1, w2}
    Texts <- MCTexts
    Seconds <- MCSeconds
    Dangerous = {"reboot"}
    Outputs <- MCOutputs
    Interval = 1
    Timeout = 2
    DefaultTime = 1
    MaxOutput = 4
    MaxTries = 2
PROPERTIES
    CmdEnds
