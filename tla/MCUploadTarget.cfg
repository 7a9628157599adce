\* The question names one object, another one is overwritten.
SPECIFICATION UploadSpec
CONSTANTS
    Folders = {f1, f2}
    Names = {n1}
    Wanders = TRUE
    NoName = NoName
INVARIANT ConfirmedTarget
