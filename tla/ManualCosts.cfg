SPECIFICATION Spec
CONSTANTS
    Days = 2
    Keys = {"k1", "k2"}
    SkuKey = "k1"
    NoKey = "none"
    Files <- SmallFiles
    Patches <- SomePatches
    Uploads = {u1}
    NoUpload = nofile
    Transactions = {t1, t2}
    MaxRows = 3
    MaxEdits = 1
SYMMETRY Alike
PROPERTIES NoCollateral CoverageKept ConfirmedTwiceOnlyIfGone
CHECK_DEADLOCK FALSE
