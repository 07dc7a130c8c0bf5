SPECIFICATION EmojisSpec
CONSTANTS
    Actor = {carol}
    Emoji = {e1, e2}
    Session = {inbox, tasks}
    MaxVersion = 2
SYMMETRY Symmetric
INVARIANT CacheAgrees
