SPECIFICATION MentionsFairSpec
CONSTANTS
    alice = alice  movie = movie  bob = bob
    Profile <- MCProfile
    Local <- MCLocal
    Writers <- MCWriters
    Movies <- MCMovies
    MaxPosts = 2
    MaxNotifications = 2
    Batch = 2
    MaxCrashes = 1
    None = None
INVARIANT NotifiedOnce
PROPERTIES AnnouncedOnce MentionServed
