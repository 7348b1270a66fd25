SPECIFICATION Spec
CONSTANTS
    Outs = {video, osd}
    Video = video
    Supported = {video, osd}
    Binds = {b1, b2}
    MaxTries = 3
    MaxWindows = 3
    MaxChanges = 3
INVARIANTS
    DrawsOnLiveWindow
    WantedIsShown
    GeometryFollows
