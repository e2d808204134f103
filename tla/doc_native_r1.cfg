CONSTANTS
    Links = {"sdhci", "dwmmc"}
    Cards <- MCCards
    Switches = {"Sdr4"}
    Verifies = {TRUE}
    Strict = {TRUE}
    Noise = {}
    ReplyNoise = {}
    BlockNoise = {}
    Fillings <- MCFillings
SPECIFICATION Spec
INVARIANT ErrorsInR1AreReturned
