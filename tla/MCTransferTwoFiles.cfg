\* One client offers two files of one chunk.
CONSTANTS
    u = u
    Client = {u, d}
    File = {f, g}
    Owner <- OfUploader
    Size = 1
    Window = 1
    NoFile = NoFile
    Content = {x}
    MaxDownload = 1
    Patient = TRUE
SPECIFICATION Spec
INVARIANT NeverStalls
CHECK_DEADLOCK FALSE
