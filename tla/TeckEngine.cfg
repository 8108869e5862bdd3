\* The native build, debug and release, and the browser build.
CONSTANTS
    Deliveries = {"sync", "async"}
    Asserts = {TRUE, FALSE}
SPECIFICATION Spec
INVARIANTS
    TypeOK
    ResourcesNested
    LoopHasDevice
    PresentHasImage
    SoundFrameDraws
    FrameReports
    CleanEnd
PROPERTIES
    QuietAfterLoss
    KeepsLifecycle
