SPECIFICATION InterfaceSpec
CONSTANTS
    Values = {0, 1, 2}
    Default = 0
    Widgets = {"bound", "combo", "pushed", "text"}
    Keep = Keep
    Nothing = Nothing
    MaxSends = 3
    MaxOverrides = 2
    Mounts = {a, b}
    Files = {f, g}
    Latest = {f}
    Detected = Detected
    Names = {x, y}
    Ui = "egui"
    MaxCommands = 4
INVARIANTS
    NoRevert
    NameIsOwn
PROPERTIES
    Settles
CHECK_DEADLOCK FALSE
