\* One uploader, one downloader, a file longer than the window, one pause or retry.
CONSTANTS
    u = u
    Client = {u, d}
    File = {f}
    Owner <- OfUploader
    Size = 3
    Window = 2
    NoFile = NoFile
    Content = {x}
    MaxDownload = 2
    Patient = TRUE
SPECIFICATION Spec
INVARIANTS TypeOK IndexesAgree GoneForGood DoneMeansAll NeverStalls
CHECK_DEADLOCK FALSE
